---- MODULE Spec2Model ----
(***************************************************************************)
(* Barrier control: relay coils on Modbus boards driven by HTTP handlers.  *)
(*                                                                         *)
(* Two programs of the repository are modelled:                            *)
(*   - server.js (multi-board server: heartbeat, commandLock, close        *)
(*     auto-release timers, emergencyOff, audit, shutdown)  -> Spec        *)
(*   - src/index.ts (lock flag, latch / unlatch, pulsed coils) -> SpecTs   *)
(*                                                                         *)
(* Every `await` of the source is a suspension point: a handler is split   *)
(* into one action per continuation, and an exchange with a board is in    *)
(* flight between the action that issues it and the action that receives   *)
(* its outcome.                                                            *)
(***************************************************************************)
EXTENDS Integers, Sequences, FiniteSets, TLC

\* ------------------------------------------------------------------------
\* Bounds
\* ------------------------------------------------------------------------
\* number of handler invocations (requests, heartbeat cycles and signals) of
\* server.js
MaxTasks == 3

\* ------------------------------------------------------------------------
\* server.js: configuration
\* ------------------------------------------------------------------------
BOARDS == <<"board1", "board2">>

Boards == {BOARDS[i] : i \in 1..Len(BOARDS)}

channels == [bd \in Boards |-> IF bd = "board1" THEN 6 ELSE 3]

BARRIERS ==
  [b \in 1..3 |->
     CASE b = 1 -> [board |-> "board1", lift |-> 0, close |-> 1, stop |-> 2]
       [] b = 2 -> [board |-> "board1", lift |-> 3, close |-> 4, stop |-> 5]
       [] b = 3 -> [board |-> "board2", lift |-> 0, close |-> 1, stop |-> 2]]

BarrierIds == DOMAIN BARRIERS

ActionNames == {"lift", "close", "stop"}

\* what a request can carry in :id and :action: the configured values, an id
\* that is no key of BARRIERS and a name that is none of the three actions
UnknownBarrier == 9

UnknownAction == "open"

BarrierInputs == BarrierIds \cup {UnknownBarrier}

ActionInputs == ActionNames \cup {UnknownAction}

\* req.headers['x-source'] || 'api': no header, or a header naming the caller
DefaultSource == "api"

Sources == {DefaultSource, "ui"}

MAX_AUDIT_ENTRIES == 500

VARIABLES
  relay,        \* the coils of the relay boards themselves (environment)
  boardRTU,     \* the dialect each board answers: TRUE = RTU-over-TCP
  boardState,   \* server.js boardState: reachable, modeDetected, useRTU,
                \*   commandLock, coils (cached snapshot)
  closeTimers,  \* server.js closeTimers: barrier -> timer handle, 0 = none
  timers,       \* timeouts that are armed and have not fired nor been cleared
  armed,        \* timer -> number of tasks that had arrived when it was armed
  callbacks,    \* auto-release callbacks awaiting their coil write
  tasks,        \* handler invocations, in order of arrival
  auditEntries, \* server.js auditEntries
  reports,      \* the last two online/offline lines logged for each board
  program       \* the program the process was started from: "server.js" or
                \*   "index.ts"; a process never becomes the other one

srvVars ==
  <<relay, boardRTU, boardState, closeTimers, timers, armed, callbacks,
    tasks, auditEntries, reports>>


\* ------------------------------------------------------------------------
\* server.js: helpers
\* ------------------------------------------------------------------------
AllOff(bd) == [c \in 0..(channels[bd] - 1) |-> FALSE]

\* The coil a write of an action's sequence addresses, and its value:
\* lift : close=false, lift=true
\* close: lift=false, close=true
\* stop : lift=false, close=false, stop=true
ActionWrites(action) ==
  CASE action = "lift"  -> <<[coil |-> "close", value |-> FALSE],
                             [coil |-> "lift", value |-> TRUE]>>
    [] action = "close" -> <<[coil |-> "lift", value |-> FALSE],
                             [coil |-> "close", value |-> TRUE]>>
    [] action = "stop"  -> <<[coil |-> "lift", value |-> FALSE],
                             [coil |-> "close", value |-> FALSE],
                             [coil |-> "stop", value |-> TRUE]>>

CoilAddr(b, name) ==
  CASE name = "lift"  -> BARRIERS[b].lift
    [] name = "close" -> BARRIERS[b].close
    [] name = "stop"  -> BARRIERS[b].stop

\* modbusRequest: an exchange has two moments. The frame reaches the board,
\* which acts on it (BoardTakes); later the handler, suspended in its await
\* until then, is resumed with the outcome. Every exchange has a socket of its
\* own, so other exchanges with the same board can be taken and answered in
\* between. A board acts on a frame of its own dialect only. The answer is
\* parsed once, by the 'data' handler, with the dialect flag as it is when
\* the data arrives: a whole answer parsed to null then (AnswerMissed) is
\* never parsed again, and the exchange ends by its timeout, 'error' or
\* 'close', whatever the flag is by then.
\*
\* How an exchange framed in dialect fr can end on board bd, acted telling
\* whether the board has taken the frame and missed whether its whole answer
\* has been parsed to null:
\*   "drop"     the board has not acted and nothing answers (timeout, socket
\*              error or close): rejected
\*   "lost"     the board acted and its answer never arrives (timeout, socket
\*              error or close after the board acted): rejected
\*   "ok"       the board acted and its whole answer parsed in the dialect of
\*              the frame: resolved
\*   "misparse" the board acted, and the answer was parsed in the other
\*              dialect and refused: parseRTUResponse throws 'CRC mismatch'
\*              on a Modbus TCP answer as it arrives, or the whole answer
\*              parsed to null before (an RTU answer is shorter than the
\*              nine bytes parseTCPResponse waits for) and the timeout,
\*              'error' or 'close' ends the exchange: rejected
\*   "garbled"  the board acted and answered in Modbus TCP, and the parser
\*              accepted bytes that are not the answer's PDU: parseTCPResponse
\*              the first nine bytes of an answer that arrives in pieces,
\*              parseRTUResponse an answer whose transaction id makes the
\*              length and CRC checks pass: resolved, and readCoils finds
\*              every coil off in what it is given
Outcomes(bd, fr, acted, missed) ==
  IF ~acted
    THEN {"drop"}
    ELSE IF missed
      THEN {"misparse"}
      ELSE {"lost"} \cup
           (IF boardState[bd].useRTU = fr THEN {"ok"} ELSE {}) \cup
           (IF boardState[bd].useRTU # fr /\ ~fr THEN {"misparse"} ELSE {}) \cup
           (IF ~fr THEN {"garbled"} ELSE {})

\* the promise of modbusRequest resolved
Resolved(o) == o \in {"ok", "garbled"}

\* readCoils as seen by its caller: the coils decoded from the PDU, snap being
\* the coils the board put into its answer
readCoils(snap, bd, o) == IF o = "garbled" THEN AllOff(bd) ELSE snap

\* writeCoil as seen by the board
WriteRelay(rl, bd, addr, value) == [rl EXCEPT ![bd][addr] = value]

\* audit(): append, drop the oldest beyond MAX_AUDIT_ENTRIES
audit(entries, action, barrier, source) ==
  LET e == Append(entries, [action |-> action, barrier |-> barrier,
                            source |-> source])
  IN IF Len(e) > MAX_AUDIT_ENTRIES THEN Tail(e) ELSE e

\* clearTimeout(closeTimers[b]); closeTimers[b] = null
CancelTimer(ct, b) == [ct EXCEPT ![b] = 0]

\* ------------------------------------------------------------------------
\* server.js: initial state
\* ------------------------------------------------------------------------
\* The relay boards keep their coils while the server is down: it starts
\* either with every coil off or with a coil of board2 left on.
InitialRelays ==
  {[bd \in Boards |-> AllOff(bd)],
   [bd \in Boards |->
      IF bd = "board2" THEN [AllOff(bd) EXCEPT ![0] = TRUE] ELSE AllOff(bd)]}

InitSrv ==
  /\ relay \in InitialRelays
  /\ boardRTU = [bd \in Boards |-> bd = "board2"]
  /\ boardState = [bd \in Boards |->
                     [reachable |-> FALSE, modeDetected |-> FALSE,
                      useRTU |-> FALSE, commandLock |-> FALSE,
                      coils |-> AllOff(bd)]]
  /\ closeTimers = [b \in BarrierIds |-> 0]
  /\ timers = {}
  /\ armed = <<>>
  /\ callbacks = {}
  /\ tasks = <<>>
  /\ auditEntries = <<>>
  /\ reports = [bd \in Boards |-> <<>>]

\* ------------------------------------------------------------------------
\* server.js: task records
\* ------------------------------------------------------------------------
\* kind : "lift" | "close" | "stop" | "eoff" | "status" | "beat"
\* b    : barrier of an action (0 otherwise)
\* bd   : the board the task is working on
\* i    : index of the awaited write (action: position in its sequence,
\*        emergencyOff: the channel)
\* pc   : "write" | "read" | "probeTcp" | "probeRtu" | "done"
\* res  : outcome once done
\* fr   : dialect of the frame of the exchange in flight (TRUE = RTU)
\* src  : source argument of an action in flight ("none" otherwise)
\* cleared : the pending timer an action in flight cleared on entry (0: none)
\* acted : the board has taken the frame of the exchange in flight
\* missed : the board's whole answer to the exchange in flight has arrived
\*        and the 'data' handler parsed it to null (no more data will come)
\* snap : the coils the board put into its answer to the read in flight
\*        (<<>> otherwise)
\* rel  : how the auto-release callback of a close ended: "released" (its
\*        write resolved) or "failed" (the WARN line of its catch); "none"
\*        before that and for every other task
Task(kind, b, bd, i, pc, res, fr) ==
  [kind |-> kind, b |-> b, bd |-> bd, i |-> i, pc |-> pc, res |-> res,
   fr |-> fr, src |-> "none", cleared |-> 0, acted |-> FALSE,
   missed |-> FALSE, snap |-> <<>>, rel |-> "none"]

\* a settled task keeps what it was and how it ended
Finished(t, res) ==
  [t EXCEPT !.pc = "done", !.res = res, !.bd = "none", !.i = 0, !.fr = FALSE,
            !.src = "none", !.cleared = 0, !.acted = FALSE, !.missed = FALSE,
            !.snap = <<>>]

BoardIndex(bd) == CHOOSE k \in 1..Len(BOARDS) : BOARDS[k] = bd

\* for (const [boardKey, cfg] of Object.entries(BOARDS)): index of the next
\* board at or after position from that the loop body does not skip, 0 if none
NextReachable(bs, from) ==
  LET S == {k \in from..Len(BOARDS) : bs[BOARDS[k]].reachable}
  IN IF S = {} THEN 0 ELSE CHOOSE k \in S : \A j \in S : k <= j

NextReadable(bs, from) ==
  LET S == {k \in from..Len(BOARDS) :
              bs[BOARDS[k]].reachable /\ ~bs[BOARDS[k]].commandLock}
  IN IF S = {} THEN 0 ELSE CHOOSE k \in S : \A j \in S : k <= j

\* ------------------------------------------------------------------------
\* server.js: POST /api/barrier/:id/:action -> latchBarrierAction
\* ------------------------------------------------------------------------
\* the route answers 400 for an unknown barrier, then for an unknown action;
\* latchBarrierAction up to the first await: reachability check, commandLock =
\* true, cancel the barrier's close timer, issue the first write

\* RequestAction taking the gate before the reachability check
RequestAction_GateFirst(b, action, source) ==
  /\ Len(tasks) < MaxTasks
  /\ IF b \notin BarrierIds \/ action \notin ActionNames
       THEN /\ tasks' = Append(tasks,
                            Task(action, b, "none", 0, "done", "rejected",
                                 FALSE))
            /\ UNCHANGED <<relay, boardRTU, reports, boardState, closeTimers,
                           timers, armed, callbacks, auditEntries>>
       ELSE LET bd == BARRIERS[b].board
                st == boardState[bd]
            IN IF ~st.reachable
                 THEN /\ tasks' = Append(tasks,
                                      Task(action, b, "none", 0, "done",
                                           "unreachable", FALSE))
                      /\ boardState' =
                           [boardState EXCEPT ![bd].commandLock = TRUE]
                      /\ UNCHANGED <<relay, boardRTU, reports, closeTimers,
                                     timers, armed, callbacks, auditEntries>>
                 ELSE /\ boardState' =
                           [boardState EXCEPT ![bd].commandLock = TRUE]
                      /\ timers' = timers \ {closeTimers[b]}
                      /\ closeTimers' = CancelTimer(closeTimers, b)
                      /\ tasks' = Append(tasks,
                                      [Task(action, b, bd, 1, "write", "none",
                                            st.useRTU)
                                         EXCEPT !.src = source,
                                                !.cleared =
                                                  IF closeTimers[b] \in timers
                                                    THEN closeTimers[b]
                                                    ELSE 0])
                      /\ UNCHANGED <<relay, boardRTU, reports, armed, callbacks,
                                     auditEntries>>

\* latchBarrierAction up to its first await
RequestAction(b, action, source) ==
  /\ Len(tasks) < MaxTasks
  /\ IF b \notin BarrierIds \/ action \notin ActionNames
       THEN /\ tasks' = Append(tasks,
                            Task(action, b, "none", 0, "done", "rejected",
                                 FALSE))
            /\ UNCHANGED <<relay, boardRTU, reports, boardState, closeTimers,
                           timers, armed, callbacks, auditEntries>>
       ELSE LET bd == BARRIERS[b].board
                st == boardState[bd]
            IN IF ~st.reachable
                 THEN /\ tasks' = Append(tasks,
                                      Task(action, b, "none", 0, "done",
                                           "unreachable", FALSE))
                      /\ UNCHANGED <<relay, boardRTU, reports, boardState, closeTimers,
                                     timers, armed, callbacks, auditEntries>>
                 ELSE /\ boardState' =
                           [boardState EXCEPT ![bd].commandLock = TRUE]
                      /\ timers' = timers \ {closeTimers[b]}
                      /\ closeTimers' = CancelTimer(closeTimers, b)
                      /\ tasks' = Append(tasks,
                                      [Task(action, b, bd, 1, "write", "none",
                                            st.useRTU)
                                         EXCEPT !.src = source,
                                                !.cleared =
                                                  IF closeTimers[b] \in timers
                                                    THEN closeTimers[b]
                                                    ELSE 0])
                      /\ UNCHANGED <<relay, boardRTU, reports, armed, callbacks,
                                     auditEntries>>

\* ActionWrite with the audit call inside the finally block
ActionWrite_AuditInFinally(t, o) ==
  /\ t \in DOMAIN tasks
  /\ tasks[t].kind \in ActionNames
  /\ tasks[t].pc = "write"
  /\ o \in Outcomes(tasks[t].bd, tasks[t].fr, tasks[t].acted,
                  tasks[t].missed)
  /\ LET tk == tasks[t]
         ws == ActionWrites(tk.kind)
         w  == ws[tk.i]
     IN /\ relay' = relay
        /\ IF Resolved(o) /\ tk.i < Len(ws)
             THEN \* next write of the sequence
                  /\ tasks' = [tasks EXCEPT ![t].i = tk.i + 1,
                                 ![t].fr = boardState[tk.bd].useRTU,
                                 ![t].acted = FALSE, ![t].missed = FALSE,
                                 ![t].snap = <<>>]
                  /\ UNCHANGED <<boardState, closeTimers, timers,
                                 auditEntries>>
             ELSE IF Resolved(o)
               THEN \* sequence complete: arm the close timer, finally, audit
                    /\ IF tk.kind = "close"
                         THEN /\ closeTimers' =
                                   [closeTimers EXCEPT ![tk.b] = t]
                              /\ timers' = timers \cup {t}
                         ELSE UNCHANGED <<closeTimers, timers>>
                    /\ boardState' =
                         [boardState EXCEPT ![tk.bd].commandLock = FALSE]
                    /\ auditEntries' =
                         audit(auditEntries, "barrier_" \o tk.kind, tk.b,
                               tk.src)
                    /\ tasks' = [tasks EXCEPT ![t] = Finished(tk, "ok")]
               ELSE \* the write threw: finally, audit
                    /\ boardState' =
                         [boardState EXCEPT ![tk.bd].commandLock = FALSE]
                    /\ auditEntries' =
                         audit(auditEntries, "barrier_" \o tk.kind, tk.b,
                               tk.src)
                    /\ tasks' = [tasks EXCEPT ![t] = Finished(tk, "err")]
                    /\ UNCHANGED <<closeTimers, timers>>
        /\ armed' = IF Resolved(o) /\ tk.i = Len(ws) /\ tk.kind = "close"
                    THEN armed @@ (t :> Len(tasks))
                    ELSE armed
        /\ UNCHANGED <<boardRTU, reports, callbacks>>

\* a write of the sequence settles
ActionWrite(t, o) ==
  /\ t \in DOMAIN tasks
  /\ tasks[t].kind \in ActionNames
  /\ tasks[t].pc = "write"
  /\ o \in Outcomes(tasks[t].bd, tasks[t].fr, tasks[t].acted,
                  tasks[t].missed)
  /\ LET tk == tasks[t]
         ws == ActionWrites(tk.kind)
         w  == ws[tk.i]
     IN /\ relay' = relay
        /\ IF Resolved(o) /\ tk.i < Len(ws)
             THEN \* next write of the sequence
                  /\ tasks' = [tasks EXCEPT ![t].i = tk.i + 1,
                                 ![t].fr = boardState[tk.bd].useRTU,
                                 ![t].acted = FALSE, ![t].missed = FALSE,
                                 ![t].snap = <<>>]
                  /\ UNCHANGED <<boardState, closeTimers, timers,
                                 auditEntries>>
             ELSE IF Resolved(o)
               THEN \* sequence complete: arm the close timer, finally, audit
                    /\ IF tk.kind = "close"
                         THEN /\ closeTimers' =
                                   [closeTimers EXCEPT ![tk.b] = t]
                              /\ timers' = timers \cup {t}
                         ELSE UNCHANGED <<closeTimers, timers>>
                    /\ boardState' =
                         [boardState EXCEPT ![tk.bd].commandLock = FALSE]
                    /\ auditEntries' =
                         audit(auditEntries, "barrier_" \o tk.kind, tk.b,
                               tk.src)
                    /\ tasks' = [tasks EXCEPT ![t] = Finished(tk, "ok")]
               ELSE \* the write threw: finally, no audit
                    /\ boardState' =
                         [boardState EXCEPT ![tk.bd].commandLock = FALSE]
                    /\ tasks' = [tasks EXCEPT ![t] = Finished(tk, "err")]
                    /\ UNCHANGED <<closeTimers, timers, auditEntries>>
        /\ armed' = IF Resolved(o) /\ tk.i = Len(ws) /\ tk.kind = "close"
                    THEN armed @@ (t :> Len(tasks))
                    ELSE armed
        /\ UNCHANGED <<boardRTU, reports, callbacks>>

\* the close timer of close task id expires: the callback issues close=false
TimerFire(id) ==
  /\ id \in timers
  /\ timers' = timers \ {id}
  /\ callbacks' = callbacks \cup
       {[id |-> id, fr |-> boardState[BARRIERS[tasks[id].b].board].useRTU,
         acted |-> FALSE, missed |-> FALSE]}
  /\ UNCHANGED <<relay, boardRTU, reports, boardState, closeTimers, armed, tasks,
                 auditEntries>>

\* CallbackWrite with the audit call after the try/catch
CallbackWrite_AuditAlways(cb, o) ==
  /\ cb \in callbacks
  /\ LET tk == tasks[cb.id]
         bd == BARRIERS[tk.b].board
     IN /\ o \in Outcomes(bd, cb.fr, cb.acted, cb.missed)
        /\ relay' = relay
        /\ auditEntries' =
             audit(auditEntries, "close_auto_release", tk.b, "system")
        /\ closeTimers' = [closeTimers EXCEPT ![tk.b] = 0]
        /\ tasks' = [tasks EXCEPT ![cb.id].rel =
                                    IF Resolved(o) THEN "released"
                                    ELSE "failed"]
  /\ callbacks' = callbacks \ {cb}
  /\ UNCHANGED <<boardRTU, reports, boardState, timers, armed>>

\* the callback's write settles: audit on success, a WARN line on failure;
\* closeTimers[b] = null
CallbackWrite(cb, o) ==
  /\ cb \in callbacks
  /\ LET tk == tasks[cb.id]
         bd == BARRIERS[tk.b].board
     IN /\ o \in Outcomes(bd, cb.fr, cb.acted, cb.missed)
        /\ relay' = relay
        /\ auditEntries' =
             IF Resolved(o)
               THEN audit(auditEntries, "close_auto_release", tk.b, "system")
               ELSE auditEntries
        /\ closeTimers' = [closeTimers EXCEPT ![tk.b] = 0]
        /\ tasks' = [tasks EXCEPT ![cb.id].rel =
                                    IF Resolved(o) THEN "released"
                                    ELSE "failed"]
  /\ callbacks' = callbacks \ {cb}
  /\ UNCHANGED <<boardRTU, reports, boardState, timers, armed>>

\* ------------------------------------------------------------------------
\* server.js: POST /api/emergency-off -> emergencyOff
\* ------------------------------------------------------------------------
\* after the sweep: cancel every recorded close timer, one audit entry under
\* the source the route read from the x-source header
EoffFinish(source) ==
  /\ timers' = timers \ {closeTimers[b] : b \in BarrierIds}
  /\ closeTimers' = [b \in BarrierIds |-> 0]
  /\ auditEntries' = audit(auditEntries, "emergency_off", 0, source)

\* the sweep turns to the board at position k: commandLock = true, write
\* channel 0
EoffEnter(bs, k) == [bs EXCEPT ![BOARDS[k]].commandLock = TRUE]

RequestEmergencyOff(source) ==
  /\ Len(tasks) < MaxTasks
  /\ LET k == NextReachable(boardState, 1)
     IN IF k = 0
          THEN /\ EoffFinish(source)
               /\ tasks' = Append(tasks,
                              Task("eoff", 0, "none", 0, "done", "ok", FALSE))
               /\ UNCHANGED boardState
          ELSE /\ boardState' = EoffEnter(boardState, k)
               /\ tasks' = Append(tasks,
                              [Task("eoff", 0, BOARDS[k], 0, "write", "none",
                                    boardState[BOARDS[k]].useRTU)
                                 EXCEPT !.src = source])
               /\ UNCHANGED <<closeTimers, timers, auditEntries>>
  /\ UNCHANGED <<relay, boardRTU, reports, armed, callbacks>>

\* EoffWrite whose commandLock reset is skipped when the write throws
EoffWrite_NoFinally(t, o) ==
  /\ t \in DOMAIN tasks
  /\ tasks[t].kind = "eoff"
  /\ tasks[t].pc = "write"
  /\ o \in Outcomes(tasks[t].bd, tasks[t].fr, tasks[t].acted,
                  tasks[t].missed)
  /\ LET tk == tasks[t]
         unlocked == [boardState EXCEPT ![tk.bd].commandLock = FALSE]
         k == NextReachable(unlocked, BoardIndex(tk.bd) + 1)
     IN /\ relay' = relay
        /\ IF Resolved(o) /\ tk.i + 1 < channels[tk.bd]
             THEN \* next channel of the same board
                  /\ tasks' = [tasks EXCEPT ![t].i = tk.i + 1,
                                 ![t].fr = boardState[tk.bd].useRTU,
                                 ![t].acted = FALSE, ![t].missed = FALSE,
                                 ![t].snap = <<>>]
                  /\ UNCHANGED <<boardState, closeTimers, timers,
                                 auditEntries>>
             ELSE IF Resolved(o) /\ k # 0
               THEN \* finally; next reachable board
                    /\ boardState' = EoffEnter(unlocked, k)
                    /\ tasks' = [tasks EXCEPT ![t].bd = BOARDS[k],
                                   ![t].i = 0,
                                   ![t].fr = boardState[BOARDS[k]].useRTU,
                                 ![t].acted = FALSE, ![t].missed = FALSE,
                                 ![t].snap = <<>>]
                    /\ UNCHANGED <<closeTimers, timers, auditEntries>>
             ELSE IF Resolved(o)
               THEN \* finally; no board left
                    /\ boardState' = unlocked
                    /\ EoffFinish(tk.src)
                    /\ tasks' = [tasks EXCEPT ![t] = Finished(tk, "ok")]
               ELSE \* the write threw: out of emergencyOff
                    /\ boardState' = boardState
                    /\ tasks' = [tasks EXCEPT ![t] = Finished(tk, "err")]
                    /\ UNCHANGED <<closeTimers, timers, auditEntries>>
  /\ UNCHANGED <<boardRTU, reports, armed, callbacks>>

EoffWrite(t, o) ==
  /\ t \in DOMAIN tasks
  /\ tasks[t].kind = "eoff"
  /\ tasks[t].pc = "write"
  /\ o \in Outcomes(tasks[t].bd, tasks[t].fr, tasks[t].acted,
                  tasks[t].missed)
  /\ LET tk == tasks[t]
         unlocked == [boardState EXCEPT ![tk.bd].commandLock = FALSE]
         k == NextReachable(unlocked, BoardIndex(tk.bd) + 1)
     IN /\ relay' = relay
        /\ IF Resolved(o) /\ tk.i + 1 < channels[tk.bd]
             THEN \* next channel of the same board
                  /\ tasks' = [tasks EXCEPT ![t].i = tk.i + 1,
                                 ![t].fr = boardState[tk.bd].useRTU,
                                 ![t].acted = FALSE, ![t].missed = FALSE,
                                 ![t].snap = <<>>]
                  /\ UNCHANGED <<boardState, closeTimers, timers,
                                 auditEntries>>
             ELSE IF Resolved(o) /\ k # 0
               THEN \* finally; next reachable board
                    /\ boardState' = EoffEnter(unlocked, k)
                    /\ tasks' = [tasks EXCEPT ![t].bd = BOARDS[k],
                                   ![t].i = 0,
                                   ![t].fr = boardState[BOARDS[k]].useRTU,
                                 ![t].acted = FALSE, ![t].missed = FALSE,
                                 ![t].snap = <<>>]
                    /\ UNCHANGED <<closeTimers, timers, auditEntries>>
             ELSE IF Resolved(o)
               THEN \* finally; no board left
                    /\ boardState' = unlocked
                    /\ EoffFinish(tk.src)
                    /\ tasks' = [tasks EXCEPT ![t] = Finished(tk, "ok")]
               ELSE \* the write threw: finally, and out of emergencyOff
                    /\ boardState' = unlocked
                    /\ tasks' = [tasks EXCEPT ![t] = Finished(tk, "err")]
                    /\ UNCHANGED <<closeTimers, timers, auditEntries>>
  /\ UNCHANGED <<boardRTU, reports, armed, callbacks>>

\* ------------------------------------------------------------------------
\* server.js: GET /api/status
\* ------------------------------------------------------------------------
RequestStatus ==
  /\ Len(tasks) < MaxTasks
  /\ LET k == NextReadable(boardState, 1)
     IN tasks' = Append(tasks,
                   IF k = 0
                     THEN Task("status", 0, "none", 0, "done", "ok", FALSE)
                     ELSE Task("status", 0, BOARDS[k], 0, "read", "none",
                               boardState[BOARDS[k]].useRTU))
  /\ UNCHANGED <<relay, boardRTU, reports, boardState, closeTimers, timers,
                 armed, callbacks, auditEntries>>

StatusRead(t, o) ==
  /\ t \in DOMAIN tasks
  /\ tasks[t].kind = "status"
  /\ tasks[t].pc = "read"
  /\ o \in Outcomes(tasks[t].bd, tasks[t].fr, tasks[t].acted,
                  tasks[t].missed)
  /\ LET tk == tasks[t]
         bs == IF Resolved(o)
                 THEN [boardState EXCEPT ![tk.bd].coils = readCoils(tk.snap, tk.bd, o)]
                 ELSE [boardState EXCEPT ![tk.bd].reachable = FALSE]
         k == NextReadable(bs, BoardIndex(tk.bd) + 1)
     IN /\ boardState' = bs
        /\ tasks' = IF k = 0
                      THEN [tasks EXCEPT ![t] = Finished(tk, "ok")]
                      ELSE [tasks EXCEPT ![t].bd = BOARDS[k],
                              ![t].fr = bs[BOARDS[k]].useRTU,
                                 ![t].acted = FALSE, ![t].missed = FALSE,
                                 ![t].snap = <<>>]
  /\ UNCHANGED <<relay, boardRTU, reports, closeTimers, timers, armed,
                 callbacks, auditEntries>>

\* ------------------------------------------------------------------------
\* server.js: heartbeatBoard, autoDetectBoard
\* ------------------------------------------------------------------------
\* HeartbeatTick without the commandLock check
HeartbeatTick_NoLockCheck(bd) ==
  /\ Len(tasks) < MaxTasks
  /\ LET st == boardState[bd]
     IN IF ~st.modeDetected
          THEN /\ boardState' = [boardState EXCEPT ![bd].useRTU = FALSE]
               /\ tasks' = Append(tasks,
                              Task("beat", 0, bd, 0, "probeTcp", "none",
                                   FALSE))
          ELSE /\ tasks' = Append(tasks,
                              Task("beat", 0, bd, 0, "read", "none",
                                   st.useRTU))
               /\ UNCHANGED boardState
  /\ UNCHANGED <<relay, boardRTU, reports, closeTimers, timers, armed,
                 callbacks, auditEntries>>

\* a tick of the board's interval: skipped while commandLock is set; starts
\* detection (TCP probe first) when the dialect is undetected; else reads
HeartbeatTick(bd) ==
  /\ Len(tasks) < MaxTasks
  /\ LET st == boardState[bd]
     IN IF st.commandLock
          THEN /\ tasks' = Append(tasks,
                              Task("beat", 0, "none", 0, "done", "skip", FALSE))
               /\ UNCHANGED boardState
          ELSE IF ~st.modeDetected
            THEN /\ boardState' = [boardState EXCEPT ![bd].useRTU = FALSE]
                 /\ tasks' = Append(tasks,
                                Task("beat", 0, bd, 0, "probeTcp", "none",
                                     FALSE))
            ELSE /\ tasks' = Append(tasks,
                                Task("beat", 0, bd, 0, "read", "none",
                                     st.useRTU))
                 /\ UNCHANGED boardState
  /\ UNCHANGED <<relay, boardRTU, reports, closeTimers, timers, armed,
                 callbacks, auditEntries>>

\* BeatProbe marking the board unreachable when both probes fail
BeatProbe_MarksOffline(t, o) ==
  /\ t \in DOMAIN tasks
  /\ tasks[t].kind = "beat"
  /\ tasks[t].pc \in {"probeTcp", "probeRtu"}
  /\ o \in Outcomes(tasks[t].bd, tasks[t].fr, tasks[t].acted,
                  tasks[t].missed)
  /\ LET tk == tasks[t]
     IN IF Resolved(o)
          THEN \* autoDetectBoard returns true; heartbeatBoard reads
               /\ boardState' = [boardState EXCEPT ![tk.bd].modeDetected = TRUE]
               /\ tasks' = [tasks EXCEPT ![t].pc = "read",
                              ![t].fr = boardState[tk.bd].useRTU,
                                 ![t].acted = FALSE, ![t].missed = FALSE,
                                 ![t].snap = <<>>]
          ELSE IF tk.pc = "probeTcp"
            THEN \* try RTU
                 /\ boardState' = [boardState EXCEPT ![tk.bd].useRTU = TRUE]
                 /\ tasks' = [tasks EXCEPT ![t].pc = "probeRtu",
                                ![t].fr = TRUE,
                                 ![t].acted = FALSE, ![t].missed = FALSE,
                                 ![t].snap = <<>>]
            ELSE \* autoDetectBoard returns false
                 /\ boardState' =
                      [boardState EXCEPT ![tk.bd].modeDetected = FALSE,
                                         ![tk.bd].reachable = FALSE]
                 /\ tasks' = [tasks EXCEPT ![t] = Finished(tk, "undetected")]
  /\ UNCHANGED <<relay, boardRTU, reports, closeTimers, timers, armed,
                 callbacks, auditEntries>>

\* a detection probe settles
BeatProbe(t, o) ==
  /\ t \in DOMAIN tasks
  /\ tasks[t].kind = "beat"
  /\ tasks[t].pc \in {"probeTcp", "probeRtu"}
  /\ o \in Outcomes(tasks[t].bd, tasks[t].fr, tasks[t].acted,
                  tasks[t].missed)
  /\ LET tk == tasks[t]
     IN IF Resolved(o)
          THEN \* autoDetectBoard returns true; heartbeatBoard reads
               /\ boardState' = [boardState EXCEPT ![tk.bd].modeDetected = TRUE]
               /\ tasks' = [tasks EXCEPT ![t].pc = "read",
                              ![t].fr = boardState[tk.bd].useRTU,
                                 ![t].acted = FALSE, ![t].missed = FALSE,
                                 ![t].snap = <<>>]
          ELSE IF tk.pc = "probeTcp"
            THEN \* try RTU
                 /\ boardState' = [boardState EXCEPT ![tk.bd].useRTU = TRUE]
                 /\ tasks' = [tasks EXCEPT ![t].pc = "probeRtu",
                                ![t].fr = TRUE,
                                 ![t].acted = FALSE, ![t].missed = FALSE,
                                 ![t].snap = <<>>]
            ELSE \* autoDetectBoard returns false
                 /\ boardState' =
                      [boardState EXCEPT ![tk.bd].modeDetected = FALSE]
                 /\ tasks' = [tasks EXCEPT ![t] = Finished(tk, "undetected")]
  /\ UNCHANGED <<relay, boardRTU, reports, closeTimers, timers, armed,
                 callbacks, auditEntries>>

\* log('INFO', online) / log('WARN', offline): the line joins the board's
\* lines, of which the last two are kept
Logged(lines, kind) ==
  IF Len(lines) < 2 THEN Append(lines, kind) ELSE <<lines[2], kind>>

\* the heartbeat's coil read settles
BeatRead(t, o) ==
  /\ t \in DOMAIN tasks
  /\ tasks[t].kind = "beat"
  /\ tasks[t].pc = "read"
  /\ o \in Outcomes(tasks[t].bd, tasks[t].fr, tasks[t].acted,
                  tasks[t].missed)
  /\ LET tk == tasks[t]
     IN IF Resolved(o)
          THEN /\ boardState' = [boardState EXCEPT
                                   ![tk.bd].coils = readCoils(tk.snap, tk.bd, o),
                                   ![tk.bd].reachable = TRUE]
               /\ reports' =
                    IF ~boardState[tk.bd].reachable
                      THEN [reports EXCEPT ![tk.bd] = Logged(@, "online")]
                      ELSE reports
               /\ tasks' = [tasks EXCEPT ![t] = Finished(tk, "ok")]
          ELSE /\ boardState' = [boardState EXCEPT
                                   ![tk.bd].reachable = FALSE,
                                   ![tk.bd].modeDetected = FALSE]
               /\ reports' =
                    IF boardState[tk.bd].reachable
                      THEN [reports EXCEPT ![tk.bd] = Logged(@, "offline")]
                      ELSE reports
               /\ tasks' = [tasks EXCEPT ![t] = Finished(tk, "err")]
  /\ UNCHANGED <<relay, boardRTU, closeTimers, timers, armed,
                 callbacks, auditEntries>>

\* ------------------------------------------------------------------------
\* server.js: SIGINT / SIGTERM -> shutdown
\* ------------------------------------------------------------------------
\* shutdown has been called: clearInterval has stopped every heartbeat
ShuttingDown == \E t \in DOMAIN tasks : tasks[t].kind = "shutdown"

\* process.exit(0) has been called: nothing runs any more
Halted ==
  \E t \in DOMAIN tasks : tasks[t].kind = "shutdown" /\ tasks[t].pc = "done"

Running == ~Halted

\* shutdown up to its first await: the heartbeats are stopped, every recorded
\* close timer is cleared (closeTimers keeps its handles), and the first
\* write of the first reachable board is issued; no commandLock is taken.
\* With no board reachable the process exits at once.
RequestShutdown ==
  /\ Len(tasks) < MaxTasks
  /\ timers' = timers \ {closeTimers[b] : b \in BarrierIds}
  /\ LET k == NextReachable(boardState, 1)
     IN tasks' = Append(tasks,
                   IF k = 0
                     THEN Task("shutdown", 0, "none", 0, "done", "exit", FALSE)
                     ELSE Task("shutdown", 0, BOARDS[k], 0, "write", "none",
                               boardState[BOARDS[k]].useRTU))
  /\ UNCHANGED <<relay, boardRTU, reports, boardState, closeTimers, armed,
                 callbacks, auditEntries>>

\* a write of shutdown settles, resolved or rejected (best effort): the next
\* channel, then the next board that is reachable by then, then
\* process.exit(0); nothing is audited
ShutdownWrite(t, o) ==
  /\ t \in DOMAIN tasks
  /\ tasks[t].kind = "shutdown"
  /\ tasks[t].pc = "write"
  /\ o \in Outcomes(tasks[t].bd, tasks[t].fr, tasks[t].acted,
                  tasks[t].missed)
  /\ LET tk == tasks[t]
         k == NextReachable(boardState, BoardIndex(tk.bd) + 1)
     IN /\ relay' = relay
        /\ tasks' =
             IF tk.i + 1 < channels[tk.bd]
               THEN [tasks EXCEPT ![t].i = tk.i + 1,
                                  ![t].fr = boardState[tk.bd].useRTU,
                                 ![t].acted = FALSE, ![t].missed = FALSE,
                                 ![t].snap = <<>>]
               ELSE IF k # 0
                 THEN [tasks EXCEPT ![t].bd = BOARDS[k],
                                    ![t].i = 0,
                                    ![t].fr = boardState[BOARDS[k]].useRTU,
                                 ![t].acted = FALSE, ![t].missed = FALSE,
                                 ![t].snap = <<>>]
                 ELSE [tasks EXCEPT ![t] = Finished(tk, "exit")]
  /\ UNCHANGED <<boardRTU, reports, boardState, closeTimers, timers, armed,
                 callbacks, auditEntries>>

\* ------------------------------------------------------------------------
\* the relay boards, at the other end of the sockets of modbusRequest
\* ------------------------------------------------------------------------
\* the coil write a task's exchange in flight asks for: the write of an
\* action's sequence, or channel i off for a sweep and for shutdown
TaskWrite(tk) ==
  IF tk.kind \in ActionNames
    THEN [addr |-> CoilAddr(tk.b, ActionWrites(tk.kind)[tk.i].coil),
          value |-> ActionWrites(tk.kind)[tk.i].value]
    ELSE [addr |-> tk.i, value |-> FALSE]

\* the frame of the exchange task t has in flight reaches its board, which
\* speaks the frame's dialect: the board applies a write, and puts its coils
\* as they are now into the answer to a read
BoardTakes(t) ==
  /\ t \in DOMAIN tasks
  /\ tasks[t].pc # "done"
  /\ ~tasks[t].acted
  /\ tasks[t].fr = boardRTU[tasks[t].bd]
  /\ LET tk == tasks[t]
     IN /\ relay' = IF tk.pc = "write"
                      THEN WriteRelay(relay, tk.bd, TaskWrite(tk).addr,
                                      TaskWrite(tk).value)
                      ELSE relay
        /\ tasks' = [tasks EXCEPT ![t].acted = TRUE,
                                  ![t].snap = IF tk.pc = "read"
                                                THEN relay[tk.bd] ELSE <<>>]
  /\ UNCHANGED <<boardRTU, reports, boardState, closeTimers, timers, armed,
                 callbacks, auditEntries>>

\* the frame of an auto-release callback's write reaches its board
BoardTakesCallback(cb) ==
  /\ cb \in callbacks
  /\ ~cb.acted
  /\ LET tk == tasks[cb.id]
         bd == BARRIERS[tk.b].board
     IN /\ cb.fr = boardRTU[bd]
        /\ relay' = WriteRelay(relay, bd, BARRIERS[tk.b].close, FALSE)
  /\ callbacks' = (callbacks \ {cb}) \cup {[cb EXCEPT !.acted = TRUE]}
  /\ UNCHANGED <<boardRTU, reports, boardState, closeTimers, timers, armed,
                 tasks, auditEntries>>

\* the whole answer to the exchange task t has in flight arrives while the
\* board's flag is the other dialect: the 'data' handler parses it to null
\* and leaves the exchange to its timeout (parseTCPResponse: an RTU answer
\* has fewer than nine bytes; parseRTUResponse: a Modbus TCP answer whose
\* second byte has bit 7 set and whose first five bytes fail the CRC)
AnswerMissed(t) ==
  /\ t \in DOMAIN tasks
  /\ tasks[t].pc # "done"
  /\ tasks[t].acted
  /\ ~tasks[t].missed
  /\ boardState[tasks[t].bd].useRTU # tasks[t].fr
  /\ tasks' = [tasks EXCEPT ![t].missed = TRUE]
  /\ UNCHANGED <<relay, boardRTU, reports, boardState, closeTimers, timers,
                 armed, callbacks, auditEntries>>

\* the same for the answer to an auto-release callback's write
CallbackAnswerMissed(cb) ==
  /\ cb \in callbacks
  /\ cb.acted
  /\ ~cb.missed
  /\ boardState[BARRIERS[tasks[cb.id].b].board].useRTU # cb.fr
  /\ callbacks' = (callbacks \ {cb}) \cup {[cb EXCEPT !.missed = TRUE]}
  /\ UNCHANGED <<relay, boardRTU, reports, boardState, closeTimers, timers,
                 armed, tasks, auditEntries>>

\* ------------------------------------------------------------------------
\* server.js: the program
\* ------------------------------------------------------------------------
OutcomeNames == {"ok", "drop", "lost", "misparse", "garbled"}


\* The handlers under any interleaving, while the process runs, and the
\* boards; requests come with or without an x-source header.
Next ==
  \/ Running /\ \E b \in BarrierInputs, a \in ActionInputs, s \in Sources :
       RequestAction(b, a, s)
  \/ Running /\ \E t \in 1..MaxTasks, o \in OutcomeNames : ActionWrite(t, o)
  \/ Running /\ \E id \in 1..MaxTasks : TimerFire(id)
  \/ Running /\ \E cb \in callbacks, o \in OutcomeNames : CallbackWrite(cb, o)
  \/ Running /\ \E s \in Sources : RequestEmergencyOff(s)
  \/ Running /\ \E t \in 1..MaxTasks, o \in OutcomeNames : EoffWrite(t, o)
  \/ Running /\ RequestStatus
  \/ Running /\ \E t \in 1..MaxTasks, o \in OutcomeNames : StatusRead(t, o)
  \/ Running /\ ~ShuttingDown /\ \E bd \in Boards : HeartbeatTick(bd)
  \/ Running /\ \E t \in 1..MaxTasks, o \in OutcomeNames : BeatProbe(t, o)
  \/ Running /\ \E t \in 1..MaxTasks, o \in OutcomeNames : BeatRead(t, o)
  \/ Running /\ RequestShutdown
  \/ Running /\ \E t \in 1..MaxTasks, o \in OutcomeNames : ShutdownWrite(t, o)
  \/ Running /\ \E t \in 1..MaxTasks : AnswerMissed(t)
  \/ Running /\ \E cb \in callbacks : CallbackAnswerMissed(cb)
  \/ \E t \in 1..MaxTasks : BoardTakes(t)
  \/ \E cb \in callbacks : BoardTakesCallback(cb)


\* ========================================================================
\* src/index.ts with src/modbus-client.ts (withRetry) and its config
\* ========================================================================
\* number of requests handled by index.ts
MaxTsTasks == 2

RELAYS == <<"10.10.10.64", "10.10.10.65">>

Relays == {RELAYS[k] : k \in 1..Len(RELAYS)}

\* emergency-off writes coils 0..7 of every relay board
RelayCoils == 8

TS_BARRIERS ==
  [b \in {"krs-entry", "krs-exit", "krs-combo"} |->
     CASE b = "krs-entry" ->
            [relay |-> "10.10.10.64", lift |-> 0, stop |-> 1, close |-> 2]
       [] b = "krs-exit" ->
            [relay |-> "10.10.10.64", lift |-> 3, stop |-> 4, close |-> 5]
       [] b = "krs-combo" ->
            [relay |-> "10.10.10.65", lift |-> 4, stop |-> 5, close |-> 3]]

TsBarrierIds == DOMAIN TS_BARRIERS

\* the barrier the modelled requests address
TsTargets == {"krs-combo"}

\* an id findBarrier resolves to no barrier
TsUnknownBarrier == "krs-none"

TsBarrierInputs == TsTargets \cup {TsUnknownBarrier}

\* the requests modelled: the three actions, the latch endpoints, lock/unlock
TsKinds ==
  {"lift", "close", "stop", "latch-open", "latch-close", "unlatch", "lock",
   "unlock"}

\* withRetry: attempts 0 and 1
RetryAttempts == 2

VARIABLES
  tsRelay,       \* the coils of the relay boards themselves (environment)
  barrierStates, \* index.ts barrierStates: locked, lastAction, lastActionTime
  latchedCoils,  \* index.ts latchedCoils: Absent, Held (null) or a timer
  tsTimers,      \* pulse timeouts armed and neither fired nor cleared
  tsCallbacks,   \* auto-release callbacks awaiting their coil write
  tsTasks        \* requests, in order of arrival

tsVars ==
  <<tsRelay, barrierStates, latchedCoils, tsTimers, tsCallbacks, tsTasks>>

\* latchedCoils has no entry for the barrier / holds null for it; a positive
\* value is the timer armed by the request of that index
Absent == 0

Held == -1

TsAllOff == [c \in 0..(RelayCoils - 1) |-> FALSE]

InitTs ==
  /\ tsRelay = [r \in Relays |-> TsAllOff]
  /\ barrierStates = [b \in TsBarrierIds |->
                        [locked |-> FALSE, lastAction |-> "null",
                         lastActionTime |-> 0]]
  /\ latchedCoils = [b \in TsBarrierIds |-> Absent]
  /\ tsTimers = {}
  /\ tsCallbacks = {}
  /\ tsTasks = <<>>

\* kind : "lift" | "close" | "stop" | "latch-open" | "latch-close" |
\*        "unlatch" | "eoff"
\* b    : barrier ("" for emergency-off)
\* r    : relay board of the exchange in flight
\* i    : position in writeMultipleCoils' list, or the coil of the sweep
\* att  : withRetry's attempt
\* pc   : "clear" | "gap" | "set" | "write" | "done"
\* res  : "ok" | "err" | "locked" | "none"
\* acted: the relay board has taken the write of the exchange in flight
TsTask(kind, b, r, i, att, pc, res) ==
  [kind |-> kind, b |-> b, r |-> r, i |-> i, att |-> att, pc |-> pc,
   res |-> res, acted |-> FALSE]

TsFinished(t, res) ==
  [t EXCEPT !.pc = "done", !.res = res, !.r = "none", !.i = 0, !.att = 0,
            !.acted = FALSE]

\* the coil activateCoil asserts for a request kind
TargetOf(kind) ==
  CASE kind \in {"lift", "latch-open"} -> "lift"
    [] kind \in {"close", "latch-close"} -> "close"
    [] kind = "stop" -> "stop"

\* activateCoil(barrier, action, hold): hold is true for the latch endpoints
Hold(kind) == kind \in {"latch-open", "latch-close"}

TsCoilAddr(b, name) ==
  CASE name = "lift"  -> TS_BARRIERS[b].lift
    [] name = "stop"  -> TS_BARRIERS[b].stop
    [] name = "close" -> TS_BARRIERS[b].close

\* the list activateCoil and releaseLatch hand to writeMultipleCoils
ClearList == <<"lift", "stop", "close">>

\* an exchange of modbus-client.ts resolves or throws
TsOutcomes == {"ok", "fail"}

\* client.writeCoil resolves with the board's answer, so only after the board
\* has taken the write; it throws when the connection fails or the frame is
\* lost, and also when the answer to a write the board has taken does not
\* arrive in time
TsOutcomesOf(acted) == IF acted THEN {"ok", "fail"} ELSE {"fail"}

\* the coil write of the exchange a request has in flight
TsTaskWrite(tk) ==
  CASE tk.pc = "clear" ->
         [addr |-> TsCoilAddr(tk.b, ClearList[tk.i]), value |-> FALSE]
    [] tk.pc = "set" ->
         [addr |-> TsCoilAddr(tk.b, TargetOf(tk.kind)), value |-> TRUE]
    [] tk.pc = "write" ->
         [addr |-> tk.i, value |-> FALSE]

\* the write request t has in flight reaches its relay board
TsBoardTakes(t) ==
  /\ t \in DOMAIN tsTasks
  /\ tsTasks[t].pc \in {"clear", "set", "write"}
  /\ ~tsTasks[t].acted
  /\ LET tk == tsTasks[t]
     IN tsRelay' = [tsRelay EXCEPT ![tk.r][TsTaskWrite(tk).addr] =
                                     TsTaskWrite(tk).value]
  /\ tsTasks' = [tsTasks EXCEPT ![t].acted = TRUE]
  /\ UNCHANGED <<barrierStates, latchedCoils, tsTimers, tsCallbacks>>

\* the release write of a pulse callback reaches its relay board
TsBoardTakesCallback(cb) ==
  /\ cb \in tsCallbacks
  /\ ~cb.acted
  /\ LET tk == tsTasks[cb.id]
     IN tsRelay' = [tsRelay EXCEPT
                      ![TS_BARRIERS[tk.b].relay]
                       [TsCoilAddr(tk.b, TargetOf(tk.kind))] = FALSE]
  /\ tsCallbacks' = (tsCallbacks \ {cb}) \cup {[cb EXCEPT !.acted = TRUE]}
  /\ UNCHANGED <<barrierStates, latchedCoils, tsTimers, tsTasks>>

\* const existingTimeout = latchedCoils.get(id);
\* if (existingTimeout) clearTimeout(existingTimeout); latchedCoils.delete(id)
ClearLatch(b) ==
  /\ tsTimers' = tsTimers \ {latchedCoils[b]}
  /\ latchedCoils' = [latchedCoils EXCEPT ![b] = Absent]

\* TsRequestAction cancelling the barrier's pulse timer before the lock check
TsRequestAction_CancelFirst(b, kind) ==
  /\ Len(tsTasks) < MaxTsTasks
  /\ kind \in {"lift", "close", "stop"}
  /\ IF b \notin TsBarrierIds
       THEN /\ tsTasks' = Append(tsTasks,
                            TsTask(kind, b, "none", 0, 0, "done", "notfound"))
            /\ UNCHANGED <<tsTimers, latchedCoils>>
       ELSE /\ ClearLatch(b)
            /\ tsTasks' = Append(tsTasks,
                 IF barrierStates[b].locked /\ kind # "stop"
                   THEN TsTask(kind, b, "none", 0, 0, "done", "locked")
                   ELSE TsTask(kind, b, TS_BARRIERS[b].relay, 1, 0, "clear",
                               "none"))
  /\ UNCHANGED <<tsRelay, barrierStates, tsCallbacks>>

\* TsRequestAction with the lock check left out
TsRequestAction_NoLockCheck(b, kind) ==
  /\ Len(tsTasks) < MaxTsTasks
  /\ kind \in {"lift", "close", "stop"}
  /\ IF b \notin TsBarrierIds
       THEN /\ tsTasks' = Append(tsTasks,
                            TsTask(kind, b, "none", 0, 0, "done", "notfound"))
            /\ UNCHANGED <<tsTimers, latchedCoils>>
       ELSE /\ ClearLatch(b)
            /\ tsTasks' = Append(tsTasks,
                            TsTask(kind, b, TS_BARRIERS[b].relay, 1, 0,
                                   "clear", "none"))
  /\ UNCHANGED <<tsRelay, barrierStates, tsCallbacks>>

\* the handlers of POST /api/barrier/:barrierId/{lift,close,stop}: 404 when
\* findBarrier finds nothing, the lock check, then activateCoil up to its
\* first await
TsRequestAction(b, kind) ==
  /\ Len(tsTasks) < MaxTsTasks
  /\ kind \in {"lift", "close", "stop"}
  /\ IF b \notin TsBarrierIds
       THEN /\ tsTasks' = Append(tsTasks,
                            TsTask(kind, b, "none", 0, 0, "done", "notfound"))
            /\ UNCHANGED <<tsTimers, latchedCoils>>
       ELSE IF barrierStates[b].locked /\ kind # "stop"
         THEN /\ tsTasks' = Append(tsTasks,
                              TsTask(kind, b, "none", 0, 0, "done", "locked"))
              /\ UNCHANGED <<tsTimers, latchedCoils>>
         ELSE /\ ClearLatch(b)
              /\ tsTasks' = Append(tsTasks,
                              TsTask(kind, b, TS_BARRIERS[b].relay, 1, 0,
                                     "clear", "none"))
  /\ UNCHANGED <<tsRelay, barrierStates, tsCallbacks>>

\* POST /api/barrier/:barrierId/latch-open and latch-close: activateCoil
\* with hold, up to its first await
TsRequestLatch(b, kind) ==
  /\ Len(tsTasks) < MaxTsTasks
  /\ kind \in {"latch-open", "latch-close"}
  /\ ClearLatch(b)
  /\ tsTasks' = Append(tsTasks,
                  TsTask(kind, b, TS_BARRIERS[b].relay, 1, 0, "clear", "none"))
  /\ UNCHANGED <<tsRelay, barrierStates, tsCallbacks>>

\* POST /api/barrier/:barrierId/unlatch: releaseLatch up to its first await
TsRequestUnlatch(b) ==
  /\ Len(tsTasks) < MaxTsTasks
  /\ ClearLatch(b)
  /\ tsTasks' = Append(tsTasks,
                  TsTask("unlatch", b, TS_BARRIERS[b].relay, 1, 0, "clear",
                         "none"))
  /\ UNCHANGED <<tsRelay, barrierStates, tsCallbacks>>

\* POST /api/barrier/:barrierId/lock and unlock: synchronous, the flag only
TsRequestLock(b, kind) ==
  /\ kind \in {"lock", "unlock"}
  /\ barrierStates' = [barrierStates EXCEPT ![b].locked = (kind = "lock")]
  /\ UNCHANGED <<tsRelay, latchedCoils, tsTimers, tsCallbacks, tsTasks>>

\* a write of writeMultipleCoils(lift, stop, close = false) settles; withRetry
\* runs the whole list again after a first failure
TsClearWrite(t, o) ==
  /\ t \in DOMAIN tsTasks
  /\ tsTasks[t].pc = "clear"
  /\ o \in TsOutcomesOf(tsTasks[t].acted)
  /\ LET tk == tsTasks[t]
     IN IF o = "ok"
          THEN /\ tsRelay' = tsRelay
               /\ IF tk.i < Len(ClearList)
                    THEN /\ tsTasks' = [tsTasks EXCEPT ![t].i = tk.i + 1,
                                                       ![t].acted = FALSE]
                         /\ UNCHANGED barrierStates
                    ELSE IF tk.kind = "unlatch"
                      THEN \* releaseLatch returns; the handler records it
                           /\ barrierStates' =
                                [barrierStates EXCEPT ![tk.b] =
                                   [locked |-> FALSE, lastAction |-> "unlatch",
                                    lastActionTime |-> t]]
                           /\ tsTasks' =
                                [tsTasks EXCEPT ![t] = TsFinished(tk, "ok")]
                      ELSE \* await new Promise(r => setTimeout(r, 50))
                           /\ tsTasks' = [tsTasks EXCEPT ![t].pc = "gap",
                                            ![t].i = 0, ![t].att = 0,
                                            ![t].acted = FALSE]
                           /\ UNCHANGED barrierStates
          ELSE /\ tsTasks' =
                    IF tk.att + 1 < RetryAttempts
                      THEN [tsTasks EXCEPT ![t].att = tk.att + 1, ![t].i = 1,
                                           ![t].acted = FALSE]
                      ELSE [tsTasks EXCEPT ![t] = TsFinished(tk, "err")]
               /\ UNCHANGED <<tsRelay, barrierStates>>
  /\ UNCHANGED <<latchedCoils, tsTimers, tsCallbacks>>

\* the 50 ms gap elapses: writeCoil(target, true) is issued
TsGap(t) ==
  /\ t \in DOMAIN tsTasks
  /\ tsTasks[t].pc = "gap"
  /\ tsTasks' = [tsTasks EXCEPT ![t].pc = "set"]
  /\ UNCHANGED <<tsRelay, barrierStates, latchedCoils, tsTimers, tsCallbacks>>

\* TsSetWrite with lastAction and lastActionTime recorded on failure too
TsSetWrite_RecordsInFinally(t, o) ==
  /\ t \in DOMAIN tsTasks
  /\ tsTasks[t].pc = "set"
  /\ o \in TsOutcomesOf(tsTasks[t].acted)
  /\ LET tk == tsTasks[t]
     IN IF o = "ok"
          THEN /\ tsRelay' = tsRelay
               /\ IF Hold(tk.kind)
                    THEN /\ latchedCoils' =
                              [latchedCoils EXCEPT ![tk.b] = Held]
                         /\ UNCHANGED tsTimers
                    ELSE /\ latchedCoils' = [latchedCoils EXCEPT ![tk.b] = t]
                         /\ tsTimers' = tsTimers \cup {t}
               /\ barrierStates' =
                    [barrierStates EXCEPT ![tk.b] =
                       [locked |-> IF Hold(tk.kind) THEN TRUE ELSE @.locked,
                        lastAction |-> tk.kind, lastActionTime |-> t]]
               /\ tsTasks' = [tsTasks EXCEPT ![t] = TsFinished(tk, "ok")]
          ELSE /\ tsTasks' =
                    IF tk.att + 1 < RetryAttempts
                      THEN [tsTasks EXCEPT ![t].att = tk.att + 1,
                                           ![t].acted = FALSE]
                      ELSE [tsTasks EXCEPT ![t] = TsFinished(tk, "err")]
               /\ barrierStates' =
                    IF tk.att + 1 < RetryAttempts THEN barrierStates
                    ELSE [barrierStates EXCEPT ![tk.b].lastAction = tk.kind,
                                               ![tk.b].lastActionTime = t]
               /\ UNCHANGED <<tsRelay, latchedCoils, tsTimers>>
  /\ UNCHANGED tsCallbacks

\* writeCoil(target, true) settles: hold or arm the pulse timer, then the
\* handler records lastAction (and locked for the latch endpoints)
TsSetWrite(t, o) ==
  /\ t \in DOMAIN tsTasks
  /\ tsTasks[t].pc = "set"
  /\ o \in TsOutcomesOf(tsTasks[t].acted)
  /\ LET tk == tsTasks[t]
     IN IF o = "ok"
          THEN /\ tsRelay' = tsRelay
               /\ IF Hold(tk.kind)
                    THEN /\ latchedCoils' =
                              [latchedCoils EXCEPT ![tk.b] = Held]
                         /\ UNCHANGED tsTimers
                    ELSE /\ latchedCoils' = [latchedCoils EXCEPT ![tk.b] = t]
                         /\ tsTimers' = tsTimers \cup {t}
               /\ barrierStates' =
                    [barrierStates EXCEPT ![tk.b] =
                       [locked |-> IF Hold(tk.kind) THEN TRUE ELSE @.locked,
                        lastAction |-> tk.kind, lastActionTime |-> t]]
               /\ tsTasks' = [tsTasks EXCEPT ![t] = TsFinished(tk, "ok")]
          ELSE /\ tsTasks' =
                    IF tk.att + 1 < RetryAttempts
                      THEN [tsTasks EXCEPT ![t].att = tk.att + 1,
                                           ![t].acted = FALSE]
                      ELSE [tsTasks EXCEPT ![t] = TsFinished(tk, "err")]
               /\ UNCHANGED <<tsRelay, barrierStates, latchedCoils, tsTimers>>
  /\ UNCHANGED tsCallbacks

\* the pulse timer armed by request id expires: the callback issues
\* writeCoil(target, false)
TsTimerFire(id) ==
  /\ id \in tsTimers
  /\ tsTimers' = tsTimers \ {id}
  /\ tsCallbacks' = tsCallbacks \cup
                      {[id |-> id, att |-> 0, acted |-> FALSE]}
  /\ UNCHANGED <<tsRelay, barrierStates, latchedCoils, tsTasks>>

\* the callback's write settles: on success latchedCoils.delete(barrier.id)
TsCallbackWrite(cb, o) ==
  /\ cb \in tsCallbacks
  /\ o \in TsOutcomesOf(cb.acted)
  /\ LET tk == tsTasks[cb.id]
     IN IF o = "ok"
          THEN /\ tsRelay' = tsRelay
               /\ latchedCoils' = [latchedCoils EXCEPT ![tk.b] = Absent]
               /\ tsCallbacks' = tsCallbacks \ {cb}
          ELSE /\ tsCallbacks' =
                    IF cb.att + 1 < RetryAttempts
                      THEN (tsCallbacks \ {cb}) \cup
                             {[id |-> cb.id, att |-> cb.att + 1,
                               acted |-> FALSE]}
                      ELSE tsCallbacks \ {cb}
               /\ UNCHANGED <<tsRelay, latchedCoils>>
  /\ UNCHANGED <<barrierStates, tsTimers, tsTasks>>

\* POST /api/emergency-off: every coil 0..7 of each distinct relay board, in
\* the order the boards first appear in BARRIERS
TsRequestEmergencyOff ==
  /\ Len(tsTasks) < MaxTsTasks
  /\ tsTasks' = Append(tsTasks,
                  TsTask("eoff", "", RELAYS[1], 0, 0, "write", "none"))
  /\ UNCHANGED <<tsRelay, barrierStates, latchedCoils, tsTimers, tsCallbacks>>

RelayIndex(r) == CHOOSE k \in 1..Len(RELAYS) : RELAYS[k] = r

TsEoffWrite(t, o) ==
  /\ t \in DOMAIN tsTasks
  /\ tsTasks[t].pc = "write"
  /\ o \in TsOutcomesOf(tsTasks[t].acted)
  /\ LET tk == tsTasks[t]
     IN IF o = "ok"
          THEN /\ tsRelay' = tsRelay
               /\ tsTasks' =
                    IF tk.i + 1 < RelayCoils
                      THEN [tsTasks EXCEPT ![t].i = tk.i + 1, ![t].att = 0,
                                           ![t].acted = FALSE]
                      ELSE IF RelayIndex(tk.r) < Len(RELAYS)
                        THEN [tsTasks EXCEPT
                                ![t].r = RELAYS[RelayIndex(tk.r) + 1],
                                ![t].i = 0, ![t].att = 0,
                                ![t].acted = FALSE]
                        ELSE [tsTasks EXCEPT ![t] = TsFinished(tk, "ok")]
          ELSE /\ tsTasks' =
                    IF tk.att + 1 < RetryAttempts
                      THEN [tsTasks EXCEPT ![t].att = tk.att + 1,
                                           ![t].acted = FALSE]
                      ELSE [tsTasks EXCEPT ![t] = TsFinished(tk, "err")]
               /\ UNCHANGED tsRelay
  /\ UNCHANGED <<barrierStates, latchedCoils, tsTimers, tsCallbacks>>

NextTs ==
  \/ \E b \in TsBarrierInputs, k \in TsKinds : TsRequestAction(b, k)
  \/ \E b \in TsTargets, k \in TsKinds : TsRequestLatch(b, k)
  \/ \E b \in TsTargets : TsRequestUnlatch(b)
  \/ \E b \in TsTargets, k \in TsKinds : TsRequestLock(b, k)
  \/ \E t \in 1..MaxTsTasks, o \in TsOutcomes : TsClearWrite(t, o)
  \/ \E t \in 1..MaxTsTasks : TsGap(t)
  \/ \E t \in 1..MaxTsTasks, o \in TsOutcomes : TsSetWrite(t, o)
  \/ \E id \in 1..MaxTsTasks : TsTimerFire(id)
  \/ \E cb \in tsCallbacks, o \in TsOutcomes : TsCallbackWrite(cb, o)
  \/ TsRequestEmergencyOff
  \/ \E t \in 1..MaxTsTasks, o \in TsOutcomes : TsEoffWrite(t, o)
  \/ \E t \in 1..MaxTsTasks : TsBoardTakes(t)
  \/ \E cb \in tsCallbacks : TsBoardTakesCallback(cb)

\* ========================================================================
\* server.js: CRC-16, framing and parsing of the two dialects
\* ========================================================================
\* bytes are integers 0..255, buffers are sequences of bytes
\* bit i of a
Bit(a, i) == (a \div (2 ^ i)) % 2

\* a ^ b on 16-bit values
Xor(a, b) ==
  LET x(i) == ((Bit(a, i) + Bit(b, i)) % 2) * (2 ^ i)
  IN x(0) + (x(1) + (x(2) + (x(3) + (x(4) + (x(5) + (x(6) + (x(7)
     + (x(8) + (x(9) + (x(10) + (x(11) + (x(12) + (x(13) + (x(14)
     + x(15)))))))))))))))

RECURSIVE CrcShift(_, _)
\* for (j = 0; j < 8; j++) crc = (crc & 1) ? (crc >> 1) ^ 0xA001 : crc >> 1
\* with j iterations left
CrcShift(crc, j) ==
  IF j = 0 THEN crc
  ELSE IF crc % 2 = 1 THEN CrcShift(Xor(crc \div 2, 40961), j - 1)
  ELSE CrcShift(crc \div 2, j - 1)

RECURSIVE CrcFrom(_, _, _)
\* the loop over the buffer from position i on
CrcFrom(crc, buffer, i) ==
  IF i > Len(buffer) THEN crc
  ELSE CrcFrom(CrcShift(Xor(crc, buffer[i]), 8), buffer, i + 1)

crc16(buffer) == CrcFrom(65535, buffer, 1)

\* out.writeUInt16LE(crc16(buffer), buffer.length)
appendCRC(buffer) ==
  buffer \o <<crc16(buffer) % 256, crc16(buffer) \div 256>>

\* verifyCRC comparing the low byte of the checksum only
verifyCRC_LowByte(buffer) ==
  IF Len(buffer) < 4 THEN FALSE
  ELSE crc16(SubSeq(buffer, 1, Len(buffer) - 2)) % 256 =
         buffer[Len(buffer) - 1]

verifyCRC(buffer) ==
  IF Len(buffer) < 4 THEN FALSE
  ELSE crc16(SubSeq(buffer, 1, Len(buffer) - 2)) =
         buffer[Len(buffer) - 1] + 256 * buffer[Len(buffer)]

\* tid = (++state.transactionId) & 0xFFFF; MBAP header, then the PDU
buildTCPFrame(transactionId, unitId, fc, data) ==
  LET tid == (transactionId + 1) % 65536
      pdu == <<fc>> \o data
  IN <<tid \div 256, tid % 256, 0, 0,
       ((Len(pdu) + 1) \div 256) % 256, (Len(pdu) + 1) % 256, unitId>> \o pdu

buildRTUFrame(unitId, fc, data) == appendCRC(<<unitId, fc>> \o data)

\* what a parser does with the bytes received so far: it returns null (the
\* frame is incomplete), returns a PDU, or throws
ParsedNull == [tag |-> "null", pdu |-> <<>>]

ParsedPdu(pdu) == [tag |-> "pdu", pdu |-> pdu]

ThrowException(fc, code) == [tag |-> "exception", pdu |-> <<fc % 128, code>>]

ThrowCrc == [tag |-> "crc", pdu |-> <<>>]

\* parseTCPResponse returning the payload without the function code
parseTCPResponse_NoFc(response) ==
  IF Len(response) < 9 THEN ParsedNull
  ELSE IF response[8] >= 128
    THEN ThrowException(response[8], response[9])
    ELSE ParsedPdu(SubSeq(response, 9, Len(response)))

parseTCPResponse(response) ==
  IF Len(response) < 9 THEN ParsedNull
  ELSE IF response[8] >= 128
    THEN ThrowException(response[8], response[9])
    ELSE ParsedPdu(SubSeq(response, 8, Len(response)))

\* parseRTUResponse taking whatever has arrived for the whole frame
parseRTUResponse_NoLength(response) ==
  IF Len(response) < 5 THEN ParsedNull
  ELSE LET fc == response[2]
           expectedLen == Len(response)
       IN IF fc >= 128
            THEN IF verifyCRC(SubSeq(response, 1, 5))
                   THEN ThrowException(fc, response[3])
                   ELSE ParsedNull
            ELSE IF Len(response) < expectedLen THEN ParsedNull
            ELSE IF ~verifyCRC(SubSeq(response, 1, expectedLen))
              THEN ThrowCrc
              ELSE ParsedPdu(SubSeq(response, 2, expectedLen - 2))

parseRTUResponse(response) ==
  IF Len(response) < 5 THEN ParsedNull
  ELSE LET fc == response[2]
           expectedLen ==
             IF fc = 1 \/ fc = 2 THEN 3 + response[3] + 2
             ELSE IF fc = 5 \/ fc = 6 THEN 8
             ELSE Len(response)
       IN IF fc >= 128
            THEN IF verifyCRC(SubSeq(response, 1, 5))
                   THEN ThrowException(fc, response[3])
                   ELSE ParsedNull
            ELSE IF Len(response) < expectedLen THEN ParsedNull
            ELSE IF ~verifyCRC(SubSeq(response, 1, expectedLen))
              THEN ThrowCrc
              ELSE ParsedPdu(SubSeq(response, 2, expectedLen - 2))

\* ------------------------------------------------------------------------
\* server.js: the CRC functions applied to byte sequences
\* ------------------------------------------------------------------------
\* longest byte sequence handed to appendCRC
MaxCrcLen == 3

\* the byte values the sequences are made of
ByteSamples == {0, 1, 128, 255}

VARIABLES
  crcInput,  \* the byte sequence b
  crcFrame,  \* appendCRC(b), possibly with one bit flipped; <<>> before
  crcFlip    \* index of the flipped bit, -1 when none

crcVars == <<crcInput, crcFrame, crcFlip>>

IdleCrc == crcInput = <<>> /\ crcFrame = <<>> /\ crcFlip = -1

InitCrc ==
  /\ crcInput \in UNION {[1..n -> ByteSamples] : n \in 0..MaxCrcLen}
  /\ crcFrame = <<>>
  /\ crcFlip = -1

\* bit k of the buffer inverted (bit k % 8 of byte k \div 8)
FlipBit(buffer, k) ==
  [buffer EXCEPT ![(k \div 8) + 1] = Xor(@, 2 ^ (k % 8))]

CrcAppend ==
  /\ crcFrame = <<>>
  /\ crcFrame' = appendCRC(crcInput)
  /\ UNCHANGED <<crcInput, crcFlip>>

CrcFlipBit(k) ==
  /\ crcFrame # <<>>
  /\ crcFlip = -1
  /\ k \in 0..(8 * Len(crcFrame) - 1)
  /\ crcFrame' = FlipBit(crcFrame, k)
  /\ crcFlip' = k
  /\ UNCHANGED crcInput

NextCrc ==
  \/ CrcAppend
  \/ \E k \in 0..(8 * (MaxCrcLen + 2) - 1) : CrcFlipBit(k)

\* ------------------------------------------------------------------------
\* server.js: modbusRequest, one exchange event by event
\* ------------------------------------------------------------------------
\* most data bytes of a read-coils response
MaxDataBytes == 2

\* values of the data bytes of a read-coils response
DataSamples == {0, 1, 37}

\* state.transactionId before the frame is built (65535 wraps to tid 0)
TransactionIds == {0, 65535}

\* cfg.unitId
UnitId == 1

\* the PDUs a board answers with: a read-coils response (function code 1,
\* byte count, data), a write-coil echo (function code 5, address, value) and
\* an exception (function code with the high bit set, exception code)
ReadPdus ==
  UNION {{<<1, n>> \o d : d \in [1..n -> DataSamples]} : n \in 1..MaxDataBytes}

WritePdus == {<<5, 0, addr, v, 0>> : addr \in {0, 5}, v \in {0, 255}}

ExceptionPdus == {<<129, 2>>, <<133, 4>>}

ResponsePdus == ReadPdus \cup WritePdus \cup ExceptionPdus

\* the frame that carries a PDU in a dialect
FrameOf(rtu, transactionId, pdu) ==
  IF rtu THEN buildRTUFrame(UnitId, Head(pdu), Tail(pdu))
         ELSE buildTCPFrame(transactionId, UnitId, Head(pdu), Tail(pdu))

\* the frame with the lowest bit of its last byte inverted on the wire
Corrupted(frame) == FlipBit(frame, 8 * (Len(frame) - 1))

VARIABLES
  xUseRTU,     \* state.useRTU of the board
  xPdu,        \* the PDU the board answers with
  xWire,       \* the bytes the board sends
  xDelivered,  \* how many of them the socket has emitted as 'data'
  xBuf,        \* Buffer.concat(chunks)
  xResponded,  \* responded
  xTimer,      \* the MODBUS_TIMEOUT timer: "armed", "cleared" or "fired"
  xSock,       \* "open", "ended", "destroyed", "errored" or "closed"
  xCalls       \* the calls of resolve and reject, in order

xVars ==
  <<xUseRTU, xPdu, xWire, xDelivered, xBuf, xResponded, xTimer, xSock, xCalls>>

IdleX ==
  /\ xUseRTU = FALSE /\ xPdu = <<>> /\ xWire = <<>> /\ xDelivered = 0
  /\ xBuf = <<>> /\ xResponded = FALSE /\ xTimer = "none" /\ xSock = "none"
  /\ xCalls = <<>>

\* the request has been framed and handed to the socket, the timer is armed
InitX ==
  /\ xUseRTU \in BOOLEAN
  /\ xPdu \in ResponsePdus
  /\ \E tid \in TransactionIds :
       xWire \in {FrameOf(xUseRTU, tid, xPdu),
                  Corrupted(FrameOf(xUseRTU, tid, xPdu))}
  /\ xDelivered = 0
  /\ xBuf = <<>>
  /\ xResponded = FALSE
  /\ xTimer = "armed"
  /\ xSock = "open"
  /\ xCalls = <<>>

Resolve(pdu) == [call |-> "resolve", pdu |-> pdu, err |-> ""]

Reject(err) == [call |-> "reject", pdu |-> <<>>, err |-> err]

\* readCoils: coil i is bit i % 8 of pdu[2 + floor(i / 8)]; a byte the PDU
\* does not have reads as undefined, and undefined & mask is 0
DecodeCoils(pdu, qty) ==
  [i \in 0..(qty - 1) |->
     IF 3 + (i \div 8) <= Len(pdu) THEN Bit(pdu[3 + (i \div 8)], i % 8) = 1
     ELSE FALSE]

\* the parser the data handler picks by state.useRTU
Parse(rtu, buf) == IF rtu THEN parseRTUResponse(buf) ELSE parseTCPResponse(buf)

\* socket.on('data'): the next k bytes arrive as one chunk; ignored once
\* responded, else appended and the whole buffer parsed
XData(k) ==
  /\ xSock \in {"open", "ended"}
  /\ k \in 1..(Len(xWire) - xDelivered)
  /\ xDelivered' = xDelivered + k
  /\ IF xResponded
       THEN UNCHANGED <<xBuf, xResponded, xTimer, xSock, xCalls>>
       ELSE LET buf == xBuf \o SubSeq(xWire, xDelivered + 1, xDelivered + k)
                r   == Parse(xUseRTU, buf)
            IN /\ xBuf' = buf
               /\ IF r.tag = "null"
                    THEN UNCHANGED <<xResponded, xTimer, xSock, xCalls>>
                    ELSE /\ xResponded' = TRUE
                         /\ xTimer' = "cleared"
                         /\ xSock' = "ended"
                         /\ xCalls' =
                              Append(xCalls,
                                     IF r.tag = "pdu" THEN Resolve(r.pdu)
                                     ELSE Reject(r.tag))
  /\ UNCHANGED <<xUseRTU, xPdu, xWire>>

\* the MODBUS_TIMEOUT timer expires
XTimeout ==
  /\ xTimer = "armed"
  /\ xTimer' = "fired"
  /\ IF xResponded
       THEN UNCHANGED <<xResponded, xSock, xCalls>>
       ELSE /\ xResponded' = TRUE
            /\ xSock' = "destroyed"
            /\ xCalls' = Append(xCalls, Reject("Modbus timeout"))
  /\ UNCHANGED <<xUseRTU, xPdu, xWire, xDelivered, xBuf>>

\* socket.on('error')
XSocketError ==
  /\ xSock \in {"open", "ended"}
  /\ xSock' = "errored"
  /\ IF xResponded
       THEN UNCHANGED <<xResponded, xTimer, xCalls>>
       ELSE /\ xResponded' = TRUE
            /\ xTimer' = "cleared"
            /\ xCalls' = Append(xCalls, Reject("socket error"))
  /\ UNCHANGED <<xUseRTU, xPdu, xWire, xDelivered, xBuf>>

\* XSocketClose rejecting without looking at responded
XSocketClose_Unguarded ==
  /\ xSock \in {"open", "ended", "destroyed", "errored"}
  /\ xSock' = "closed"
  /\ xResponded' = TRUE
  /\ xTimer' = IF xTimer = "armed" THEN "cleared" ELSE xTimer
  /\ xCalls' = Append(xCalls, Reject("Socket closed"))
  /\ UNCHANGED <<xUseRTU, xPdu, xWire, xDelivered, xBuf>>

\* socket.on('close')
XSocketClose ==
  /\ xSock \in {"open", "ended", "destroyed", "errored"}
  /\ xSock' = "closed"
  /\ IF xResponded
       THEN UNCHANGED <<xResponded, xTimer, xCalls>>
       ELSE /\ xResponded' = TRUE
            /\ xTimer' = "cleared"
            /\ xCalls' = Append(xCalls, Reject("Socket closed"))
  /\ UNCHANGED <<xUseRTU, xPdu, xWire, xDelivered, xBuf>>

\* the longest frame on the wire: the Modbus TCP echo of a write (7 bytes of
\* MBAP header, 5 of PDU), or a Modbus TCP read-coils response (7 bytes of
\* header, function code, byte count, data bytes) when that is longer
MaxWire == IF 9 + MaxDataBytes > 12 THEN 9 + MaxDataBytes ELSE 12

NextX ==
  \/ \E k \in 1..MaxWire : XData(k)
  \/ XTimeout
  \/ XSocketError
  \/ XSocketClose

\* ========================================================================
\* src/index.ts: findBarrier
\* ========================================================================
\* A request's :id token is a string, modelled as the sequence of its
\* characters. A character is written as itself, or by its escape, or, when
\* it is not ASCII or has no escape, by the name of its code point.

\* longest token made of TokenChars that is tried
MaxTokenLen == 3

\* config: numericId of each barrier
NUMERIC_ID ==
  [b \in TsBarrierIds |->
     CASE b = "krs-entry" -> 1
       [] b = "krs-exit"  -> 2
       [] b = "krs-combo" -> 3]

\* config: id of each barrier, character by character
ID_CHARS ==
  [b \in TsBarrierIds |->
     CASE b = "krs-entry" -> <<"k", "r", "s", "-", "e", "n", "t", "r", "y">>
       [] b = "krs-exit"  -> <<"k", "r", "s", "-", "e", "x", "i", "t">>
       [] b = "krs-combo" -> <<"k", "r", "s", "-", "c", "o", "m", "b", "o">>]

\* characters the tried tokens are made of
TokenChars == {"0", "1", "3", "x", "k", "-", " ", "\t", "U+00A0"}

TokensOfLen(n) == [1..n -> TokenChars]

Tokens ==
  UNION {TokensOfLen(n) : n \in 1..MaxTokenLen}
    \cup {ID_CHARS[b] : b \in TsBarrierIds}

LowerDigits ==
  <<"0", "1", "2", "3", "4", "5", "6", "7", "8", "9",
    "a", "b", "c", "d", "e", "f">>

UpperDigits == <<"A", "B", "C", "D", "E", "F">>

NoDigit == 99

\* value of a character as a digit; NoDigit when it is none in any radix
DigitValue(c) ==
  IF \E k \in 1..Len(LowerDigits) : LowerDigits[k] = c
    THEN (CHOOSE k \in 1..Len(LowerDigits) : LowerDigits[k] = c) - 1
    ELSE IF \E k \in 1..Len(UpperDigits) : UpperDigits[k] = c
      THEN (CHOOSE k \in 1..Len(UpperDigits) : UpperDigits[k] = c) + 9
      ELSE NoDigit

\* StrWhiteSpaceChar: the white space and line terminator characters of
\* ECMAScript (TAB, LF, VT, FF, CR, SP, NBSP, the Unicode space separators,
\* LS, PS, ZWNBSP)
WhiteSpace ==
  {"\t", "\n", "U+000B", "\f", "\r", " ", "U+00A0", "U+1680", "U+2000",
   "U+2001", "U+2002", "U+2003", "U+2004", "U+2005", "U+2006", "U+2007",
   "U+2008", "U+2009", "U+200A", "U+2028", "U+2029", "U+202F", "U+205F",
   "U+3000", "U+FEFF"}

\* parseInt step 2: leading white space is skipped
RECURSIVE TrimStart(_)
TrimStart(s) ==
  IF s # <<>> /\ Head(s) \in WhiteSpace THEN TrimStart(Tail(s)) ELSE s

\* parseInt steps 11-12: the longest prefix of radix-R digits
RECURSIVE DigitPrefix(_, _)
DigitPrefix(s, radix) ==
  IF s # <<>> /\ DigitValue(Head(s)) < radix
    THEN <<Head(s)>> \o DigitPrefix(Tail(s), radix)
    ELSE <<>>

\* the integer a sequence of radix-R digits denotes
RECURSIVE DigitsValue(_, _, _)
DigitsValue(s, radix, acc) ==
  IF s = <<>> THEN acc
  ELSE DigitsValue(Tail(s), radix, acc * radix + DigitValue(Head(s)))

NaN == [nan |-> TRUE, value |-> 0]

\* parseInt(string) with no radix argument
parseInt(string) ==
  LET S      == TrimStart(string)
      signed == S # <<>> /\ Head(S) \in {"+", "-"}
      sign   == IF S # <<>> /\ Head(S) = "-" THEN -1 ELSE 1
      S1     == IF signed THEN Tail(S) ELSE S
      hex    == Len(S1) >= 2 /\ S1[1] = "0" /\ S1[2] \in {"x", "X"}
      R      == IF hex THEN 16 ELSE 10
      S2     == IF hex THEN Tail(Tail(S1)) ELSE S1
      Z      == DigitPrefix(S2, R)
  IN IF Z = <<>> THEN NaN
     ELSE [nan |-> FALSE, value |-> sign * DigitsValue(Z, R, 0)]

\* BARRIERS.find(...) finding nothing
NotFound == "undefined"

FindByNumericId(num) ==
  IF \E b \in TsBarrierIds : NUMERIC_ID[b] = num
    THEN CHOOSE b \in TsBarrierIds : NUMERIC_ID[b] = num
    ELSE NotFound

FindById(token) ==
  IF \E b \in TsBarrierIds : ID_CHARS[b] = token
    THEN CHOOSE b \in TsBarrierIds : ID_CHARS[b] = token
    ELSE NotFound

findBarrier(barrierId) ==
  LET num == parseInt(barrierId)
  IN IF ~num.nan THEN FindByNumericId(num.value) ELSE FindById(barrierId)

VARIABLES
  findToken,   \* the :id token of a request
  findResult   \* what findBarrier returned for it ("pending" before the call)

findVars == <<findToken, findResult>>

IdleFind == findToken = <<>> /\ findResult = "pending"

InitFind == findToken \in Tokens /\ findResult = "pending"

FindBarrierCall ==
  /\ findResult = "pending"
  /\ findToken # <<>>
  /\ findResult' = findBarrier(findToken)
  /\ UNCHANGED findToken

NextFind == FindBarrierCall

\* ========================================================================
\* src/modbus-client.ts: getConnection and withRetry
\* ========================================================================
\* number of withRetry invocations
MaxCalls == 2

\* key(host, port): one endpoint per relay board (the port is the same)
Endpoints == Relays

VARIABLES
  connections,      \* modbus-client.ts connections: endpoint -> client, 0 = none
  connectPromises,  \* modbus-client.ts connectPromises: endpoint -> the client
                    \*   whose connect is awaited, 0 = none
  clients,          \* the ModbusRTU objects created so far
  calls             \* the withRetry invocations, in order of arrival

connVars == <<connections, connectPromises, clients, calls>>

\* conn   : "connecting" | "connected" | "failed", how connectTCP ended
\* open   : isOpen
\* failed : an operation on the client has failed
Client(k) ==
  [k |-> k, conn |-> "connecting", open |-> FALSE, failed |-> FALSE]

\* attempt : withRetry's loop variable
\* pc      : "connect" (awaiting getConnection's promise for client p) |
\*           "op" (awaiting op(client p)) | "done"
\* ops     : how many times op has been started
\* res     : "ok" | "err" once done
\* thrown  : the attempt whose error withRetry threw (-1: none)
Call(k, p) ==
  [k |-> k, attempt |-> 0, pc |-> "connect", p |-> p, ops |-> 0,
   res |-> "none", thrown |-> -1]

IdleConn ==
  /\ connections = [k \in Endpoints |-> 0]
  /\ connectPromises = [k \in Endpoints |-> 0]
  /\ clients = <<>>
  /\ calls = <<>>

\* existing.close(); connections.delete(k)
DropCached(conns, cls, k) ==
  [conns |-> [conns EXCEPT ![k] = 0],
   cls   |-> IF conns[k] # 0 THEN [cls EXCEPT ![conns[k]].open = FALSE]
             ELSE cls]

\* getConnection up to its return: the maps and clients afterwards and the
\* client whose promise the caller awaits
getConnection(conns, proms, cls, k) ==
  LET existing == conns[k]
  IN IF existing # 0 /\ cls[existing].open
       THEN [conns |-> conns, proms |-> proms, cls |-> cls, p |-> existing]
       ELSE LET d == DropCached(conns, cls, k)
            IN IF proms[k] # 0
                 THEN [conns |-> d.conns, proms |-> proms, cls |-> d.cls,
                       p |-> proms[k]]
                 ELSE [conns |-> d.conns,
                       proms |-> [proms EXCEPT ![k] = Len(cls) + 1],
                       cls   |-> Append(d.cls, Client(k)),
                       p     |-> Len(cls) + 1]

\* withRetry is called: attempt 0 asks for a connection
CallStart(k) ==
  /\ Len(calls) < MaxCalls
  /\ LET g == getConnection(connections, connectPromises, clients, k)
     IN /\ connections' = g.conns
        /\ connectPromises' = g.proms
        /\ clients' = g.cls
        /\ calls' = Append(calls, Call(k, g.p))

\* ConnectSettles removing the pending entry only after a successful connect
ConnectSettles_NoFinally(p, ok) ==
  /\ p \in DOMAIN clients
  /\ clients[p].conn = "connecting"
  /\ IF ok
       THEN /\ clients' = [clients EXCEPT ![p].conn = "connected",
                                          ![p].open = TRUE]
            /\ connections' = [connections EXCEPT ![clients[p].k] = p]
            /\ connectPromises' = [connectPromises EXCEPT ![clients[p].k] = 0]
       ELSE /\ clients' = [clients EXCEPT ![p].conn = "failed"]
            /\ UNCHANGED <<connections, connectPromises>>
  /\ UNCHANGED calls

\* client.connectTCP settles: connections.set on success; finally
\* connectPromises.delete(k)
ConnectSettles(p, ok) ==
  /\ p \in DOMAIN clients
  /\ clients[p].conn = "connecting"
  /\ IF ok
       THEN /\ clients' = [clients EXCEPT ![p].conn = "connected",
                                          ![p].open = TRUE]
            /\ connections' = [connections EXCEPT ![clients[p].k] = p]
       ELSE /\ clients' = [clients EXCEPT ![p].conn = "failed"]
            /\ UNCHANGED connections
  /\ connectPromises' = [connectPromises EXCEPT ![clients[p].k] = 0]
  /\ UNCHANGED calls

\* withRetry's catch keeping the cached connection
Caught_KeepsCached(i, cls) ==
  LET c == calls[i]
  IN IF c.attempt + 1 < RetryAttempts
       THEN LET g == getConnection(connections, connectPromises, cls, c.k)
            IN /\ connections' = g.conns
               /\ connectPromises' = g.proms
               /\ clients' = g.cls
               /\ calls' = [calls EXCEPT ![i].attempt = c.attempt + 1,
                                         ![i].pc = "connect",
                                         ![i].p = g.p]
       ELSE /\ connections' = connections
            /\ clients' = cls
            /\ calls' = [calls EXCEPT ![i].pc = "done", ![i].res = "err",
                                      ![i].p = 0,
                                      ![i].thrown = c.attempt]
            /\ UNCHANGED connectPromises

\* withRetry's catch: the cached connection is closed and deleted; after
\* attempt 0 the loop continues with getConnection, after attempt 1 the error
\* is thrown
Caught(i, cls) ==
  LET c == calls[i]
      d == DropCached(connections, cls, c.k)
  IN IF c.attempt + 1 < RetryAttempts
       THEN LET g == getConnection(d.conns, connectPromises, d.cls, c.k)
            IN /\ connections' = g.conns
               /\ connectPromises' = g.proms
               /\ clients' = g.cls
               /\ calls' = [calls EXCEPT ![i].attempt = c.attempt + 1,
                                         ![i].pc = "connect",
                                         ![i].p = g.p]
       ELSE /\ connections' = d.conns
            /\ clients' = d.cls
            /\ calls' = [calls EXCEPT ![i].pc = "done", ![i].res = "err",
                                      ![i].p = 0,
                                      ![i].thrown = c.attempt]
            /\ UNCHANGED connectPromises

\* the awaited getConnection promise has settled: op(client) starts, or the
\* rejection is caught
CallResume(i) ==
  /\ i \in DOMAIN calls
  /\ calls[i].pc = "connect"
  /\ clients[calls[i].p].conn # "connecting"
  /\ IF clients[calls[i].p].conn = "connected"
       THEN /\ calls' = [calls EXCEPT ![i].pc = "op",
                                      ![i].ops = calls[i].ops + 1]
            /\ UNCHANGED <<connections, connectPromises, clients>>
       ELSE Caught(i, clients)

\* op(client) settles; it can only succeed on a client that is open
OpSettles(i, ok) ==
  /\ i \in DOMAIN calls
  /\ calls[i].pc = "op"
  /\ ok => clients[calls[i].p].open
  /\ IF ok
       THEN /\ calls' = [calls EXCEPT ![i].pc = "done", ![i].res = "ok",
                                      ![i].p = 0]
            /\ UNCHANGED <<connections, connectPromises, clients>>
       ELSE Caught(i, [clients EXCEPT ![calls[i].p].failed = TRUE])

\* the socket of an open client is closed by the relay board or by an error
ClientDrop(p) ==
  /\ p \in DOMAIN clients
  /\ clients[p].open
  /\ clients' = [clients EXCEPT ![p].open = FALSE]
  /\ UNCHANGED <<connections, connectPromises, calls>>

\* a call can create one client per attempt
MaxClients == RetryAttempts * MaxCalls

NextConn ==
  \/ \E k \in Endpoints : CallStart(k)
  \/ \E p \in 1..MaxClients, ok \in BOOLEAN : ConnectSettles(p, ok)
  \/ \E i \in 1..MaxCalls : CallResume(i)
  \/ \E i \in 1..MaxCalls, ok \in BOOLEAN : OpSettles(i, ok)
  \/ \E p \in 1..MaxClients : ClientDrop(p)

\* ========================================================================
\* Specifications
\* ========================================================================
vars == <<srvVars, tsVars, crcVars, xVars, findVars, connVars, program>>

Init ==
  /\ InitSrv /\ InitTs /\ IdleCrc /\ IdleX /\ IdleFind /\ IdleConn
  /\ program = "server.js"

\* server.js
Spec ==
  Init /\ [][Next /\ UNCHANGED <<tsVars, crcVars, xVars, findVars, connVars,
                                 program>>]_vars

\* One run of the repository: the process started is server.js or index.ts.
\* The two share no state; the program the process was started from is the
\* only one that ever takes a step.
NextProgram ==
  \/ /\ program = "server.js"
     /\ Next
     /\ UNCHANGED <<tsVars, crcVars, xVars, findVars, connVars, program>>
  \/ /\ program = "index.ts"
     /\ NextTs
     /\ UNCHANGED <<srvVars, crcVars, xVars, findVars, connVars, program>>

InitProgram ==
  /\ InitSrv /\ InitTs /\ IdleCrc /\ IdleX /\ IdleFind /\ IdleConn
  /\ program \in {"server.js", "index.ts"}

SpecProgram == InitProgram /\ [][NextProgram]_vars

\* a step of the server.js handlers
SrvStep(A) ==
  A /\ UNCHANGED <<tsVars, crcVars, xVars, findVars, connVars, program>>

\* Spec with the event loop's scheduling: while the process runs, an
\* expired timer's callback runs, and every exchange in flight settles (by
\* its timeout at the latest); a frame on its way to a board that speaks its
\* dialect reaches it unless the exchange has ended before. Nothing is
\* scheduled once the process has exited: a frame its socket had not written
\* by then never leaves it
FairSpec ==
  /\ Spec
  /\ WF_vars(SrvStep(Running /\ \E t \in 1..MaxTasks : BoardTakes(t)))
  /\ WF_vars(SrvStep(Running /\ \E cb \in callbacks : BoardTakesCallback(cb)))
  /\ WF_vars(SrvStep(Running /\ \E id \in 1..MaxTasks : TimerFire(id)))
  /\ WF_vars(SrvStep(Running /\ \E cb \in callbacks, o \in OutcomeNames :
                       CallbackWrite(cb, o)))
  /\ WF_vars(SrvStep(Running /\ \E t \in 1..MaxTasks, o \in OutcomeNames :
                       ActionWrite(t, o)))
  /\ WF_vars(SrvStep(Running /\ \E t \in 1..MaxTasks, o \in OutcomeNames :
                       EoffWrite(t, o)))
  /\ WF_vars(SrvStep(Running /\ \E t \in 1..MaxTasks, o \in OutcomeNames :
                       StatusRead(t, o)))
  /\ WF_vars(SrvStep(Running /\ \E t \in 1..MaxTasks, o \in OutcomeNames :
                       BeatProbe(t, o)))
  /\ WF_vars(SrvStep(Running /\ \E t \in 1..MaxTasks, o \in OutcomeNames :
                       BeatRead(t, o)))
  /\ WF_vars(SrvStep(Running /\ \E t \in 1..MaxTasks, o \in OutcomeNames :
                       ShutdownWrite(t, o)))

\* server.js, the board monitor on its own (startHeartbeats: one
\* setInterval per board, no request arrives), from the moment each board
\* answers one dialect for good, whatever was cached for it before
InitBeat ==
  /\ relay = [bd \in Boards |-> AllOff(bd)]
  /\ boardRTU \in [Boards -> BOOLEAN]
  /\ boardState \in
       {[bd \in Boards |->
           [reachable |-> f[bd][1], modeDetected |-> f[bd][2],
            useRTU |-> f[bd][3], commandLock |-> FALSE,
            coils |-> AllOff(bd)]] :
          f \in [Boards -> BOOLEAN \X BOOLEAN \X BOOLEAN]}
  /\ closeTimers = [b \in BarrierIds |-> 0]
  /\ timers = {}
  /\ armed = <<>>
  /\ callbacks = {}
  /\ tasks = <<>>
  /\ auditEntries = <<>>
  /\ reports = [bd \in Boards |-> <<>>]
  /\ InitTs /\ IdleCrc /\ IdleX /\ IdleFind /\ IdleConn
  /\ program = "server.js"

\* the board answers every request framed in its dialect: such an exchange
\* does not end without an answer (which resolves it, or was parsed to null
\* when it arrived)
Answered(t, o) ==
  /\ t \in DOMAIN tasks
  /\ tasks[t].pc # "done"
  /\ tasks[t].fr = boardRTU[tasks[t].bd] => o \notin {"drop", "lost"}

Pending(tk) == tk.pc # "done"

\* heartbeatBoard returned: nothing refers to the invocation any more
Forget ==
  /\ \E t \in DOMAIN tasks : ~Pending(tasks[t])
  /\ tasks' = SelectSeq(tasks, Pending)
  /\ UNCHANGED <<relay, boardRTU, boardState, reports, closeTimers, timers,
                 armed, callbacks, auditEntries>>

BeatProbeAnswered(t) ==
  \E o \in OutcomeNames : Answered(t, o) /\ BeatProbe(t, o)

BeatReadAnswered(t) ==
  \E o \in OutcomeNames : Answered(t, o) /\ BeatRead(t, o)

NextBeat ==
  \/ \E bd \in Boards : HeartbeatTick(bd)
  \/ \E t \in 1..MaxTasks : BoardTakes(t)
  \/ \E t \in 1..MaxTasks : AnswerMissed(t)
  \/ \E t \in 1..MaxTasks : BeatProbeAnswered(t)
  \/ \E t \in 1..MaxTasks : BeatReadAnswered(t)
  \/ Forget

\* the interval of each board keeps ticking, a board takes the frames of its
\* dialect, the answer of an exchange the board took arrives (it resolves the
\* exchange or is parsed to null), every exchange in flight settles (by its
\* timeout at the latest), and returned invocations are forgotten
FairBeat ==
  /\ InitBeat
  /\ [][SrvStep(NextBeat)]_vars
  /\ \A bd \in Boards : SF_vars(SrvStep(HeartbeatTick(bd)))
  /\ \A t \in 1..MaxTasks : WF_vars(SrvStep(BoardTakes(t)))
  /\ \A t \in 1..MaxTasks :
       WF_vars(SrvStep(\/ AnswerMissed(t)
                       \/ BeatProbeAnswered(t)
                       \/ BeatReadAnswered(t)))
  /\ WF_vars(SrvStep(Forget))

\* src/index.ts
InitIndexTs ==
  /\ InitSrv /\ relay = [bd \in Boards |-> AllOff(bd)]
  /\ InitTs /\ IdleCrc /\ IdleX /\ IdleFind /\ IdleConn
  /\ program = "index.ts"

SpecTs ==
  InitIndexTs
    /\ [][NextTs /\ UNCHANGED <<srvVars, crcVars, xVars, findVars, connVars,
                                program>>]_vars

\* server.js, the CRC functions
InitCrcSpec ==
  /\ InitSrv /\ relay = [bd \in Boards |-> AllOff(bd)]
  /\ InitTs /\ IdleX /\ InitCrc /\ IdleFind /\ IdleConn
  /\ program = "server.js"

SpecCrc ==
  InitCrcSpec
    /\ [][NextCrc /\ UNCHANGED <<srvVars, tsVars, xVars, findVars, connVars,
                                 program>>]_vars

\* server.js, one exchange of modbusRequest
InitXchg ==
  /\ InitSrv /\ relay = [bd \in Boards |-> AllOff(bd)]
  /\ InitTs /\ IdleCrc /\ InitX /\ IdleFind /\ IdleConn
  /\ program = "server.js"

SpecXchg ==
  InitXchg
    /\ [][NextX /\ UNCHANGED <<srvVars, tsVars, crcVars, findVars, connVars,
                               program>>]_vars

\* src/index.ts, findBarrier on one token
InitFindSpec ==
  /\ InitSrv /\ relay = [bd \in Boards |-> AllOff(bd)]
  /\ InitTs /\ IdleCrc /\ IdleX /\ InitFind /\ IdleConn
  /\ program = "index.ts"

SpecFind ==
  InitFindSpec
    /\ [][NextFind /\ UNCHANGED <<srvVars, tsVars, crcVars, xVars, connVars,
                                  program>>]_vars

\* src/modbus-client.ts, the connection manager under withRetry
InitConnSpec ==
  /\ InitSrv /\ relay = [bd \in Boards |-> AllOff(bd)]
  /\ InitTs /\ IdleCrc /\ IdleX /\ IdleFind /\ IdleConn
  /\ program = "index.ts"

SpecConn ==
  InitConnSpec
    /\ [][NextConn
           /\ UNCHANGED <<srvVars, tsVars, crcVars, xVars, findVars,
                          program>>]_vars

\* ------------------------------------------------------------------------
\* Properties of server.js
\* ------------------------------------------------------------------------
CoilNames == {"lift", "close", "stop"}

Coil(b, name) == relay[BARRIERS[b].board][CoilAddr(b, name)]

Asserted(b) == {n \in CoilNames : Coil(b, n)}

InFlight(t) == t \in DOMAIN tasks /\ tasks[t].pc # "done"

\* a task record without the board's part of the exchange in flight
Code(tk) == [tk EXCEPT !.acted = FALSE, !.missed = FALSE, !.snap = <<>>]

\* the callback of a close timer starts, and ends, in this step (a callback
\* is known by the close that armed its timer)
CallbackIds(cbs) == {cb.id : cb \in cbs}

CallbackStarts(cb) == cb \in callbacks' /\ cb.id \notin CallbackIds(callbacks)

CallbackEnds(cb) == cb \in callbacks /\ cb.id \notin CallbackIds(callbacks')

\* task t settles in this step with result res
Settles(t, res) ==
  /\ InFlight(t)
  /\ tasks'[t].pc = "done"
  /\ tasks'[t].res = res

\* task t arrives in this step
Arrives(t) == t = Len(tasks) + 1 /\ Len(tasks') = t

Writing(bd) == {t \in DOMAIN tasks : tasks[t].pc = "write" /\ tasks[t].bd = bd}

Reading(bd) ==
  {t \in DOMAIN tasks :
     /\ tasks[t].pc \in {"read", "probeTcp", "probeRtu"}
     /\ tasks[t].bd = bd}

TimersOf(b) == {id \in timers : tasks[id].b = b}

\* C1: after each lift, close or stop that completes successfully, at most
\* one of the barrier's three coils is asserted on the board.
C1_MutualExclusion ==
  [][\A t \in 1..MaxTasks :
       (Settles(t, "ok") /\ tasks[t].kind \in ActionNames)
         => Cardinality(Asserted(tasks[t].b)') <= 1]_vars

\* C2: write sequences on one board are serialized: at most one write
\* sequence (action or emergency-off sweep) is in flight per board.
C2_WritesSerialized == \A bd \in Boards : Cardinality(Writing(bd)) <= 1

\* C3: no heartbeat or status coil read of a board is in flight while a
\* write sequence on that board is in progress.
C3_NoReadMidWrite == \A bd \in Boards : Reading(bd) = {} \/ Writing(bd) = {}

\* C4: at every instant at most one auto-release timer is pending per
\* barrier.
C4_OneTimerPerBarrier == \A b \in BarrierIds : Cardinality(TimersOf(b)) <= 1

\* C5: when lift is issued on a barrier after close and before the close
\* auto-release has fired, the close auto-release never fires (it is not left
\* pending), and once both have completed the lift coil is on and the close
\* coil is off.
Accepted(t) == tasks[t].res \notin {"err", "unreachable"}

LiftAfter(c) ==
  {l \in DOMAIN tasks :
     l > c /\ tasks[l].kind = "lift" /\ tasks[l].b = tasks[c].b /\ Accepted(l)}

\* nothing but close c and lift l ever touched the coils of their barrier
OnlyPair(c, l) ==
  /\ \A t \in DOMAIN tasks \ {c, l} :
       \/ tasks[t].kind \in {"beat", "status"}
       \/ tasks[t].res = "rejected"
       \/ tasks[t].kind \in ActionNames /\ tasks[t].b # tasks[c].b

C5_CloseThenLift ==
  /\ \A c \in timers : LiftAfter(c) = {}
  /\ \A c \in DOMAIN tasks : \A l \in LiftAfter(c) :
       (/\ tasks[c].kind = "close"
        /\ tasks[c].pc = "done" /\ tasks[c].res = "ok"
        /\ tasks[l].pc = "done" /\ tasks[l].res = "ok"
        /\ OnlyPair(c, l)
        /\ callbacks = {})
         => Coil(tasks[c].b, "lift") /\ ~Coil(tasks[c].b, "close")

\* C8: when an emergency-off sweep completes, every channel of every board
\* is off.
AllChannelsOff == \A bd \in Boards : relay[bd] = AllOff(bd)

C8_SweepLeavesAllOff ==
  [][\A t \in 1..MaxTasks :
       ((Settles(t, "ok") \/ (Arrives(t) /\ tasks'[t].pc = "done"))
          /\ tasks'[t].kind = "eoff" /\ tasks'[t].res = "ok")
         => AllChannelsOff']_vars

\* C9: no timer that was pending when an emergency-off sweep was requested
\* is still pending (and so able to fire) once the sweep has finished,
\* whether the sweep succeeded or failed.
C9_SweepCancelsTimers ==
  \A t \in DOMAIN tasks :
    (tasks[t].kind = "eoff" /\ tasks[t].pc = "done")
      => \A id \in timers : armed[id] >= t

\* C10: the sweep is best-effort: whenever a write of the sweep settles,
\* by success or failure, and the board has channels left, the sweep goes on
\* to the next channel.
C10_SweepBestEffort ==
  [][\A t \in 1..MaxTasks :
       (/\ InFlight(t)
        /\ tasks[t].kind = "eoff"
        /\ Code(tasks'[t]) # Code(tasks[t])
        /\ tasks[t].i + 1 < channels[tasks[t].bd])
         => /\ tasks'[t].pc = "write"
            /\ tasks'[t].bd = tasks[t].bd
            /\ tasks'[t].i = tasks[t].i + 1]_vars

\* ------------------------------------------------------------------------
\* Properties of src/index.ts
\* ------------------------------------------------------------------------
\* request t arrives in this step
TsArrives(t) == t = Len(tsTasks) + 1 /\ Len(tsTasks') = t

TsRejected(t) == tsTasks'[t].pc = "done" /\ tsTasks'[t].res = "locked"

\* C6: a lift or close that arrives while its barrier is locked is rejected
\* as locked and no coil is written; a stop or unlatch that arrives while the
\* barrier is locked is accepted and its write sequence is carried out.
C6_LockedRejectsLiftClose ==
  [][\A t \in 1..MaxTsTasks :
       (TsArrives(t) /\ tsTasks'[t].b \in TsBarrierIds
          /\ barrierStates[tsTasks'[t].b].locked)
         => /\ tsTasks'[t].kind \in {"lift", "close"}
                => TsRejected(t) /\ tsRelay' = tsRelay
            /\ tsTasks'[t].kind \in {"stop", "unlatch"}
                => tsTasks'[t].pc = "clear" /\ tsTasks'[t].i = 1]_vars

\* a close was rejected as locked and a stop was then carried out on the
\* barrier, which is still locked
C6_Witness ==
  \E t1, t2 \in DOMAIN tsTasks :
    /\ t1 < t2
    /\ tsTasks[t1].kind = "close" /\ tsTasks[t1].res = "locked"
    /\ tsTasks[t2].kind = "stop" /\ tsTasks[t2].res = "ok"
    /\ tsTasks[t2].b = tsTasks[t1].b
    /\ barrierStates[tsTasks[t1].b].locked
    /\ barrierStates[tsTasks[t1].b].lastAction = "stop"
    /\ tsRelay[TS_BARRIERS[tsTasks[t1].b].relay]
              [TsCoilAddr(tsTasks[t1].b, "stop")]

\* C7: a latch-open or latch-close that arrives while its barrier is locked
\* is rejected: no coil write, and the barrier's coils, timer and last-action
\* record stay as they were.
C7_LockedRejectsLatch ==
  [][\A t \in 1..MaxTsTasks :
       (TsArrives(t) /\ tsTasks'[t].kind \in {"latch-open", "latch-close"}
          /\ tsTasks'[t].b \in TsBarrierIds
          /\ barrierStates[tsTasks'[t].b].locked)
         => /\ TsRejected(t)
            /\ UNCHANGED <<tsRelay, latchedCoils, tsTimers, barrierStates>>]_vars

\* ------------------------------------------------------------------------
\* Properties of server.js: audit, rejection, detection, gate
\* ------------------------------------------------------------------------
AuditCount(action) ==
  Cardinality({k \in DOMAIN auditEntries : auditEntries[k].action = action})

Ended(kind) ==
  {t \in DOMAIN tasks : tasks[t].kind = kind /\ tasks[t].pc = "done"}

\* C11: every emergency-off invocation that has ended, by success or by a
\* failed coil write, has emitted exactly one emergency_off audit event.
C11_SweepAlwaysAudited ==
  AuditCount("emergency_off") = Cardinality(Ended("eoff"))

Rejected(t) == tasks'[t].pc = "done" /\ tasks'[t].res = "rejected"

\* server.js: a request naming an unknown barrier or an unknown action is
\* rejected at once; no exchange is issued, the gate, the timers and the audit
\* log stay as they were
SrvRejectionClean ==
  \A t \in 1..MaxTasks :
    (/\ Arrives(t)
     /\ tasks'[t].kind \in ActionInputs
     /\ tasks'[t].b \notin BarrierIds \/ tasks'[t].kind \notin ActionNames)
      => /\ Rejected(t)
         /\ UNCHANGED <<relay, boardState, closeTimers, timers, callbacks,
                        auditEntries>>

\* index.ts: a lift, close or stop naming an unknown barrier, and a lift or
\* close on a locked barrier, is rejected at once; no exchange is issued, the
\* pulse timers and the barrier's lastAction, lastActionTime and locked flag
\* stay as they were
TsRejectionClean ==
  \A t \in 1..MaxTsTasks :
    (/\ TsArrives(t)
     /\ tsTasks'[t].kind \in {"lift", "close", "stop"}
     /\ \/ tsTasks'[t].b \notin TsBarrierIds
        \/ barrierStates[tsTasks'[t].b].locked /\ tsTasks'[t].kind # "stop")
      => /\ tsTasks'[t].pc = "done"
         /\ tsTasks'[t].res \in {"notfound", "locked"}
         /\ UNCHANGED <<tsRelay, barrierStates, latchedCoils, tsTimers,
                        tsCallbacks>>

ProbeSettles(t) ==
  /\ InFlight(t)
  /\ tasks[t].pc \in {"probeTcp", "probeRtu"}
  /\ Code(tasks'[t]) # Code(tasks[t])

\* the ways a settling probe can go on: detected in the board's own dialect
\* (tcp by the first probe, rtu by the second), on to the RTU probe after a
\* failed TCP probe, or undetected after both failed
ProbeStep(t) ==
  LET bd == tasks[t].bd
  IN \/ /\ tasks'[t].pc = "read"
        /\ boardState'[bd].modeDetected
        /\ boardState'[bd].useRTU = boardRTU[bd]
        /\ boardState'[bd].useRTU = (tasks[t].pc = "probeRtu")
        /\ tasks'[t].fr = boardRTU[bd]
     \/ /\ tasks[t].pc = "probeTcp"
        /\ tasks'[t].pc = "probeRtu"
        /\ tasks'[t].fr
        /\ boardState'[bd].useRTU
        /\ boardState'[bd].modeDetected = boardState[bd].modeDetected
     \/ /\ tasks[t].pc = "probeRtu"
        /\ tasks'[t].pc = "done"
        /\ tasks'[t].res = "undetected"
        /\ ~boardState'[bd].modeDetected

\* a heartbeat that is not skipped starts with the TCP probe exactly when the
\* board is undetected, and with the coil read otherwise
TickStep(t) ==
  LET bd == tasks'[t].bd
  IN /\ (tasks'[t].pc = "probeTcp") = ~boardState[bd].modeDetected
     /\ (tasks'[t].pc = "read") = boardState[bd].modeDetected
     /\ tasks'[t].pc = "probeTcp" => ~tasks'[t].fr /\ ~boardState'[bd].useRTU

\* C13: detection probes with a coil read framed as TCP first and as RTU
\* second; it ends detected with the dialect the board answers (rtu for a
\* board that answers only RTU frames, tcp for one that answers TCP frames),
\* and when both probes fail the board stays undetected, so that the next
\* heartbeat probes again. A probe writes no coil.
C13_DetectionFallback ==
  [][\A t \in 1..MaxTasks :
       /\ ProbeSettles(t) => ProbeStep(t)
       /\ (InFlight(t) /\ tasks[t].pc \in {"probeTcp", "probeRtu"}
             /\ ~tasks[t].acted /\ tasks'[t].acted)
            => relay' = relay
       /\ (Arrives(t) /\ tasks'[t].kind = "beat" /\ tasks'[t].pc # "done")
            => TickStep(t)]_vars

\* board1 was detected as tcp and board2, after its TCP probe failed, as rtu,
\* and a detection has ended undetected
C13_Witness ==
  /\ boardState["board1"].modeDetected /\ ~boardState["board1"].useRTU
  /\ boardState["board2"].modeDetected /\ boardState["board2"].useRTU
  /\ boardState["board2"].reachable
  /\ \E t \in DOMAIN tasks : tasks[t].res = "undetected"

BoardOf(b) == BARRIERS[b].board

\* an exchange with board bd fails in this step: a heartbeat read, an action
\* or sweep write, a status read (it marks the board unreachable), or the
\* write of an auto-release callback (it ends without an audit entry)
ExchangeFails(bd) ==
  \/ \E t \in DOMAIN tasks :
       /\ tasks[t].bd = bd
       /\ tasks[t].pc \in {"read", "write"}
       /\ Settles(t, "err")
  \/ \E t \in DOMAIN tasks :
       /\ tasks[t].bd = bd
       /\ tasks[t].kind = "status"
       /\ tasks[t].pc = "read"
       /\ Code(tasks'[t]) # Code(tasks[t])
       /\ boardState[bd].reachable /\ ~boardState'[bd].reachable
  \/ \E cb \in callbacks :
       /\ CallbackEnds(cb)
       /\ BoardOf(tasks[cb.id].b) = bd
       /\ auditEntries' = auditEntries

\* C14: when an exchange fails on a board whose dialect was detected (a
\* heartbeat read, a status read, an action write or an auto-release write),
\* the board's dialect is reset to undetected, so that the next cycle probes
\* again.
C14_FailureResetsDialect ==
  [][\A bd \in Boards :
       (boardState[bd].modeDetected /\ ExchangeFails(bd))
         => ~boardState'[bd].modeDetected]_vars

\* ------------------------------------------------------------------------
\* Properties of the exchange and of the codec
\* ------------------------------------------------------------------------
\* C15: every exchange settles exactly once and no later than its deadline:
\* resolve or reject is called at most once, it has been called as soon as
\* the timeout timer is no longer armed (so at the latest when the timer
\* fires), and no data, close, error or timer event after that calls either
\* again.
C15_SettlesOnce ==
  /\ [](/\ Len(xCalls) <= 1
        /\ xResponded = (Len(xCalls) = 1)
        /\ (xTimer # "armed") = (Len(xCalls) = 1))
  /\ [][xResponded => xCalls' = xCalls /\ xResponded']_vars

\* the exchange resolved, and the rest of the frame, then the close of the
\* socket, came after that
C15_Witness ==
  /\ Len(xCalls) = 1 /\ xCalls[1].call = "resolve"
  /\ xSock = "closed"
  /\ xDelivered > Len(xBuf)

\* the board sends the frame of xPdu unaltered
ValidWire ==
  \E tid \in TransactionIds : xWire = FrameOf(xUseRTU, tid, xPdu)

Prefix(buffer, n) == SubSeq(buffer, 1, n)

\* what the complete frame of the PDU parses to: the PDU itself, or for an
\* exception response the Modbus exception
Decoded(pdu) ==
  IF Head(pdu) >= 128 THEN ThrowException(Head(pdu), pdu[2])
  ELSE ParsedPdu(pdu)

\* C16: when a valid RTU response (read-coils, write-coil or exception
\* shape) arrives in arbitrary chunks, every proper prefix parses as
\* incomplete and the parse completes exactly once, when all bytes are
\* present: the exchange is not settled by a PDU, an exception or a CRC
\* failure before that, and is settled by the decoded frame then.
C16_RtuReassembly ==
  (xUseRTU /\ ValidWire) =>
    /\ \A n \in 0..(Len(xWire) - 1) :
         parseRTUResponse(Prefix(xWire, n)) = ParsedNull
    /\ parseRTUResponse(xWire) = Decoded(xPdu)
    /\ Len(xBuf) < Len(xWire) =>
         \A c \in 1..Len(xCalls) :
           xCalls[c].call = "reject"
             /\ xCalls[c].err \in {"Modbus timeout", "socket error",
                                   "Socket closed"}
    /\ xBuf = xWire =>
         xCalls = <<IF Head(xPdu) >= 128 THEN Reject("exception")
                    ELSE Resolve(xPdu)>>

\* all bytes of a valid RTU read-coils response with two data bytes have
\* arrived and the exchange resolved with its PDU
C16_Witness ==
  /\ xUseRTU /\ ValidWire
  /\ Head(xPdu) = 1 /\ Len(xPdu) = 4
  /\ xBuf = xWire
  /\ xCalls = <<Resolve(xPdu)>>
  /\ xSock = "ended"

\* C18: for both dialects, parsing the frame built by the matching builder
\* recovers the function code followed by the payload, for read-coils
\* responses and for write-coil echoes.
C18_FrameRoundTrip ==
  (Head(xPdu) \in {1, 5}) =>
    /\ \A tid \in TransactionIds :
         parseTCPResponse(buildTCPFrame(tid, UnitId, Head(xPdu), Tail(xPdu)))
           = ParsedPdu(xPdu)
    /\ parseRTUResponse(buildRTUFrame(UnitId, Head(xPdu), Tail(xPdu)))
         = ParsedPdu(xPdu)
    /\ (ValidWire /\ xBuf = xWire /\ xDelivered = Len(xWire)
          /\ Len(xCalls) = 1 /\ xCalls[1].call = "resolve")
         => Parse(xUseRTU, xBuf) = ParsedPdu(xPdu)

\* a TCP frame of a write-coil echo arrived whole and resolved the exchange
\* with the PDU it was built from
C18_Witness ==
  /\ ~xUseRTU /\ ValidWire
  /\ Head(xPdu) = 5
  /\ xBuf = xWire
  /\ xCalls = <<Resolve(xPdu)>>

\* C17 as stated: for every byte sequence b, verifyCRC(appendCRC(b)) is true,
\* and it is false after any single bit of appendCRC(b) is flipped.
C17_CrcRoundTripAny ==
  crcFrame # <<>> => (verifyCRC(crcFrame) = (crcFlip = -1))

\* C17: for every byte sequence b of at least two bytes,
\* verifyCRC(appendCRC(b)) is true, and it is false after any single bit of
\* appendCRC(b) is flipped.
C17_CrcRoundTrip ==
  (crcFrame # <<>> /\ Len(crcInput) >= 2) =>
    (verifyCRC(crcFrame) = (crcFlip = -1))

\* a bit of the CRC bytes of a three-byte sequence's frame was flipped
C17_Witness ==
  /\ Len(crcInput) = 3
  /\ crcFlip >= 8 * Len(crcInput)
  /\ crcFrame = FlipBit(appendCRC(crcInput), crcFlip)

\* C19: the command gate of a board is free whenever no write sequence (of an
\* action or of an emergency-off sweep) is in progress on that board; a
\* sequence that ends, by success or by a failed write, leaves it free.
C19_GateReleased ==
  \A bd \in Boards : Writing(bd) = {} => ~boardState[bd].commandLock

\* an action and a sweep each took the gate of a board, both ended by a failed
\* write, and no gate is held
C19_Witness ==
  /\ \E t \in DOMAIN tasks :
       /\ tasks[t].kind = "eoff"
       /\ tasks[t].pc = "done" /\ tasks[t].res = "err"
  /\ \E t \in DOMAIN tasks :
       /\ tasks[t].kind \in ActionNames
       /\ tasks[t].pc = "done" /\ tasks[t].res = "err"
  /\ \A bd \in Boards : ~boardState[bd].commandLock /\ Writing(bd) = {}

\* the entries appended by a step
NewEntries == SubSeq(auditEntries', Len(auditEntries) + 1, Len(auditEntries'))

\* C20: an action that succeeds appends exactly one audit entry, carrying
\* barrier_<action>, the barrier and the source of the request; an action that
\* ends in an error or is rejected appends none.
C20_ActionAudit ==
  [][\A t \in DOMAIN tasks :
       (tasks[t].kind \in ActionInputs /\ tasks[t].pc # "done"
          /\ tasks'[t].pc = "done") =>
         IF tasks'[t].res = "ok"
           THEN NewEntries = <<[action |-> "barrier_" \o tasks[t].kind,
                                barrier |-> tasks[t].b,
                                source |-> tasks[t].src]>>
           ELSE auditEntries' = auditEntries]_vars

\* a lift sent with an x-source header succeeded and is the one entry of the
\* log, and a close whose write failed left no entry
C20_Witness ==
  /\ \E t \in DOMAIN tasks :
       /\ tasks[t].kind = "lift" /\ tasks[t].res = "ok"
       /\ auditEntries = <<[action |-> "barrier_lift", barrier |-> tasks[t].b,
                            source |-> "ui"]>>
  /\ \E t \in DOMAIN tasks :
       /\ tasks[t].kind = "close" /\ tasks[t].res = "err"

\* number of coils asked for in the exchange: eight per data byte
QtyOf(pdu) == 8 * (Len(pdu) - 2)

\* C21: in the TCP dialect no proper prefix of a valid response parses to a
\* PDU, an exchange that resolves has resolved with the PDU of the complete
\* frame, and the coils decoded from a resolved read-coils response are the
\* bits of the full response.
C21_TcpReassembly ==
  (~xUseRTU /\ ValidWire /\ Head(xPdu) < 128) =>
    /\ \A n \in 0..(Len(xWire) - 1) :
         parseTCPResponse(Prefix(xWire, n)) = ParsedNull
    /\ \A c \in 1..Len(xCalls) :
         xCalls[c].call = "resolve" =>
           /\ xCalls[c].pdu = xPdu
           /\ Head(xPdu) = 1 =>
                DecodeCoils(xCalls[c].pdu, QtyOf(xPdu))
                  = DecodeCoils(xPdu, QtyOf(xPdu))

\* task t is a stop that succeeded
StopDone(t) ==
  t \in DOMAIN tasks /\ tasks[t].kind = "stop" /\ tasks[t].res = "ok"

\* a later action on the barrier of task t, or a later sweep, was accepted
Superseded(t) ==
  \E u \in DOMAIN tasks :
    /\ u > t
    /\ \/ tasks[u].kind \in ActionNames /\ tasks[u].b = tasks[t].b
       \/ tasks[u].kind = "eoff"
    /\ tasks[u].res \notin {"rejected", "unreachable"}

\* the stop coil of the barrier of stop t is off again, or the stop was
\* superseded (a settled task stays in the log as it ended)
StopReleased(t) ==
  StopDone(t) => (~Coil(tasks[t].b, "stop") \/ Superseded(t))

\* C22: when a stop settles successfully the barrier's lift and close coils
\* are off and its stop coil is on, and from then on the stop coil is
\* eventually de-asserted unless a later action on the barrier supersedes it.
C22_StopPulsed ==
  /\ [][\A t \in DOMAIN tasks :
          (tasks[t].kind = "stop" /\ Settles(t, "ok")) =>
            LET bd == BoardOf(tasks[t].b)
            IN /\ ~relay'[bd][BARRIERS[tasks[t].b].lift]
               /\ ~relay'[bd][BARRIERS[tasks[t].b].close]
               /\ relay'[bd][BARRIERS[tasks[t].b].stop]]_vars
  /\ \A t \in 1..MaxTasks :
       StopDone(t) ~> StopReleased(t)

\* a successful close arms exactly its own timer and records the handle
ArmsOne ==
  \A t \in DOMAIN tasks :
    (tasks[t].kind = "close" /\ Settles(t, "ok")) =>
      /\ t \notin timers
      /\ timers' = timers \cup {t}
      /\ closeTimers'[tasks[t].b] = t

\* a timer is armed only by its close settling, and a callback runs only for
\* a timer that was still armed: a timer removed by clearTimeout never runs
OnlyArmedFires ==
  /\ \A id \in timers' \ timers :
       tasks[id].kind = "close" /\ Settles(id, "ok")
  /\ \A cb \in callbacks' :
       CallbackStarts(cb) => cb.id \in timers /\ cb.id \notin timers'

AutoReleaseEvent(b) ==
  [action |-> "close_auto_release", barrier |-> b, source |-> "system"]

\* a system-sourced event is appended only by a callback that ends
SystemEventByCallback ==
  (\E k \in 1..Len(NewEntries) : NewEntries[k].source = "system") =>
    \E cb \in callbacks : CallbackEnds(cb)

\* an armed timer stops being armed only by expiring, which runs its
\* callback, or by the clearTimeout of a request that arrives, of a sweep
\* that ends or of a shutdown that begins
ExpiresOrCleared ==
  \A id \in timers \ timers' :
    \/ \E cb \in callbacks' : CallbackStarts(cb) /\ cb.id = id
    \/ \E t \in DOMAIN tasks' :
         /\ Arrives(t) \/ Settles(t, "ok")
         /\ tasks'[t].kind \in ActionNames \cup {"eoff"}
    \/ \E t \in DOMAIN tasks' : Arrives(t) /\ tasks'[t].kind = "shutdown"

\* C23 as stated: a successful close arms one timer; a timer that is not
\* cancelled expires, and by the time its callback ends the board has taken
\* the write close=false, one system-sourced event is emitted and the
\* barrier's timer handle is cleared; a cancelled timer does none of these.
C23_AutoReleaseAlways ==
  [][/\ ArmsOne /\ OnlyArmedFires /\ ExpiresOrCleared
     /\ SystemEventByCallback
     /\ \A cb \in callbacks :
          CallbackEnds(cb) =>
            LET b == tasks[cb.id].b
            IN /\ cb.acted
               /\ NewEntries = <<AutoReleaseEvent(b)>>
               /\ closeTimers'[b] = 0]_vars

\* C23: a successful close arms one timer; a timer that is not cancelled
\* expires and its callback issues the write close=false; when that write
\* succeeds the board has taken it and exactly one system-sourced event is
\* emitted, when it fails no event is emitted, and in both cases the
\* barrier's timer handle is cleared; a cancelled timer does none of these.
C23_AutoRelease ==
  [][/\ ArmsOne /\ OnlyArmedFires /\ ExpiresOrCleared
     /\ SystemEventByCallback
     /\ \A cb \in callbacks :
          CallbackEnds(cb) =>
            LET b == tasks[cb.id].b
            IN /\ closeTimers'[b] = 0
               /\ tasks'[cb.id].rel \in {"released", "failed"}
               /\ IF tasks'[cb.id].rel = "released"
                    THEN /\ cb.acted
                         /\ NewEntries = <<AutoReleaseEvent(b)>>
                    ELSE auditEntries' = auditEntries]_vars

\* a close succeeded, its timer fired and its callback released the close
\* coil, emitted the one system event and cleared the handle
C23_Witness ==
  /\ Len(tasks) >= 2
  /\ tasks[1].kind = "beat"
  /\ tasks[2].kind = "close" /\ tasks[2].res = "ok"
  /\ tasks[2].rel = "released"
  /\ ~Coil(tasks[2].b, "close")
  /\ closeTimers[tasks[2].b] = 0
  /\ auditEntries = <<[action |-> "barrier_close", barrier |-> tasks[2].b,
                       source |-> "ui"],
                     AutoReleaseEvent(tasks[2].b)>>
  /\ timers = {} /\ callbacks = {}

\* ------------------------------------------------------------------------
\* Properties of index.ts: latch, unlatch, lastAction
\* ------------------------------------------------------------------------
\* request t settles in this step with result res
TsSettles(t, res) ==
  /\ t \in DOMAIN tsTasks
  /\ tsTasks[t].pc # "done"
  /\ tsTasks'[t].pc = "done"
  /\ tsTasks'[t].res = res

TsCoil(b, name) == tsRelay[TS_BARRIERS[b].relay][TsCoilAddr(b, name)]

TsAsserted(b) == {n \in CoilNames : TsCoil(b, n)}

TsTimersOf(b) == {id \in tsTimers : tsTasks[id].b = b}

\* the latch request t succeeded, is the latest request and nothing else is
\* in flight: no explicit later action has been issued
LatchStands(t) ==
  /\ t = Len(tsTasks)
  /\ Hold(tsTasks[t].kind)
  /\ tsTasks[t].pc = "done" /\ tsTasks[t].res = "ok"

\* a successful latch leaves exactly the target coil on, no pulse timer
\* pending for the barrier, and locked = true
LatchSucceeds ==
  \A t \in DOMAIN tsTasks :
    (Hold(tsTasks[t].kind) /\ TsSettles(t, "ok")) =>
      LET b == tsTasks[t].b
      IN /\ TsAsserted(b)' = {TargetOf(tsTasks[t].kind)}
         /\ TsTimersOf(b)' = {}
         /\ barrierStates'[b].locked

\* a latch whose writes fail leaves locked as it was
LatchFails ==
  \A t \in DOMAIN tsTasks :
    (Hold(tsTasks[t].kind) /\ TsSettles(t, "err")) =>
      barrierStates'[tsTasks[t].b].locked = barrierStates[tsTasks[t].b].locked

\* the latched coil stays on until a later request arrives
LatchStays ==
  \A t \in DOMAIN tsTasks :
    (LatchStands(t) /\ TsCoil(tsTasks[t].b, TargetOf(tsTasks[t].kind))) =>
      TsCoil(tsTasks[t].b, TargetOf(tsTasks[t].kind))'

\* C24: a successful latch-open or latch-close leaves the target coil on with
\* the other two off, no auto-release timer pending for the barrier and
\* locked = true, and the coil stays on until a later request; a latch whose
\* coil writes fail leaves locked unchanged.
C24_LatchHolds == [][LatchSucceeds /\ LatchFails /\ LatchStays]_vars

\* C25: a successful unlatch leaves no pulse timer pending for the barrier,
\* the lift, close and stop coils all off and locked = false; an unlatch whose
\* coil writes fail leaves locked unchanged.
C25_UnlatchReleases ==
  [][\A t \in DOMAIN tsTasks :
       /\ (tsTasks[t].kind = "unlatch" /\ TsSettles(t, "ok")) =>
            LET b == tsTasks[t].b
            IN /\ TsTimersOf(b)' = {}
               /\ TsAsserted(b)' = {}
               /\ ~barrierStates'[b].locked
       /\ (tsTasks[t].kind = "unlatch" /\ TsSettles(t, "err")) =>
            barrierStates'[tsTasks[t].b].locked
              = barrierStates[tsTasks[t].b].locked]_vars

\* ------------------------------------------------------------------------
\* Properties of server.js: heartbeat cycles
\* ------------------------------------------------------------------------
\* heartbeat t starts in this step
BeatStarts(t) == Arrives(t) /\ tasks'[t].kind = "beat"

\* C26: a heartbeat cycle sends a request to a board only when the board's
\* command gate is free; a cycle that starts while the gate is held ends at
\* once, sends nothing and leaves the dialect, the reachability flag and the
\* cached coils of every board unchanged.
C26_BeatSkipsWhileLocked ==
  [][\A t \in 1..MaxTasks :
       BeatStarts(t) =>
         /\ tasks'[t].pc # "done" => ~boardState[tasks'[t].bd].commandLock
         /\ tasks'[t].pc = "done" =>
              /\ tasks'[t].res = "skip"
              /\ \E bd \in Boards : boardState[bd].commandLock
              /\ boardState' = boardState
              /\ relay' = relay]_vars

\* a heartbeat was skipped while an action held the gate of a board that is
\* reachable and detected, and the action is still writing
C26_Witness ==
  \E t \in DOMAIN tasks, w \in DOMAIN tasks :
    /\ tasks[t].kind = "beat" /\ tasks[t].res = "skip"
    /\ w < t
    /\ tasks[w].kind \in ActionNames /\ tasks[w].pc = "write"
    /\ boardState[tasks[w].bd].commandLock
    /\ boardState[tasks[w].bd].reachable
    /\ boardState[tasks[w].bd].modeDetected

\* C27: a heartbeat cycle whose detection fails in both dialects ends after
\* the RTU probe, without having issued its coil read, and no step of the
\* detection changes the reachability flag or the cached coils of a board.
C27_FailedDetectionTouchesNothing ==
  [][\A t \in DOMAIN tasks :
       (tasks[t].kind = "beat" /\ tasks[t].pc \in {"probeTcp", "probeRtu"}
          /\ Code(tasks'[t]) # Code(tasks[t])) =>
         /\ Settles(t, "undetected") => tasks[t].pc = "probeRtu"
         /\ tasks'[t].pc = "done" => tasks'[t].res = "undetected"
         /\ \A bd \in Boards :
              /\ boardState'[bd].reachable = boardState[bd].reachable
              /\ boardState'[bd].coils = boardState[bd].coils
         /\ relay' = relay]_vars

\* a detection failed in both dialects on a board that an earlier heartbeat
\* had marked reachable, and the flag is still set
C27_Witness ==
  \E t \in DOMAIN tasks, bd \in Boards :
    /\ tasks[t].kind = "beat" /\ tasks[t].res = "undetected"
    /\ boardState[bd].useRTU /\ ~boardRTU[bd]
    /\ ~boardState[bd].modeDetected
    /\ boardState[bd].reachable

\* heartbeat t's coil read on board bd settles in this step
ReadSettles(t, bd) ==
  /\ InFlight(t)
  /\ tasks[t].kind = "beat" /\ tasks[t].pc = "read" /\ tasks[t].bd = bd
  /\ tasks'[t].pc = "done"

\* C28: a heartbeat read sets the reachability flag true on success and false
\* on failure and logs an online/offline line exactly when the flag changes
\* value, and two consecutive lines of one board are never of the same kind.
C28_EdgeTriggered ==
  /\ [](\A bd \in Boards :
          Len(reports[bd]) = 2 => reports[bd][1] # reports[bd][2])
  /\ [][\A t \in DOMAIN tasks, bd \in Boards :
          ReadSettles(t, bd) =>
            /\ boardState'[bd].reachable = (tasks'[t].res = "ok")
            /\ (reports'[bd] # reports[bd])
                 = (boardState'[bd].reachable # boardState[bd].reachable)]_vars

\* C29: lastAction and lastActionTime of a barrier change only in the step in
\* which a request for that barrier settles successfully, all its coil
\* writes done, and then name that request; a request whose writes fail
\* leaves barrierStates as it was.
C29_LastActionAfterSuccess ==
  [][/\ \A b \in TsBarrierIds :
          (\/ barrierStates'[b].lastAction # barrierStates[b].lastAction
           \/ barrierStates'[b].lastActionTime
                # barrierStates[b].lastActionTime) =>
            \E t \in DOMAIN tsTasks :
              /\ TsSettles(t, "ok")
              /\ tsTasks[t].b = b
              /\ barrierStates'[b].lastAction = tsTasks[t].kind
              /\ barrierStates'[b].lastActionTime = t
     /\ \A t \in DOMAIN tsTasks :
          TsSettles(t, "err") => barrierStates' = barrierStates]_vars

\* a lift succeeded and was recorded, then a close failed after its retries
\* and the record still names the lift
C29_Witness ==
  /\ Len(tsTasks) = 2
  /\ tsTasks[1].kind = "lift" /\ tsTasks[1].res = "ok"
  /\ tsTasks[2].kind = "close" /\ tsTasks[2].res = "err"
  /\ barrierStates[tsTasks[1].b].lastAction = "lift"
  /\ barrierStates[tsTasks[1].b].lastActionTime = 1
  /\ tsTasks[2].b = tsTasks[1].b

\* ------------------------------------------------------------------------
\* Properties of the board monitor on its own
\* ------------------------------------------------------------------------
Rediscovered(bd) ==
  /\ boardState[bd].reachable
  /\ boardState[bd].modeDetected
  /\ boardState[bd].useRTU = boardRTU[bd]

\* C30: a board that answers every request framed in one dialect, whatever
\* dialect was cached for it, eventually becomes reachable with that dialect
\* detected, by the heartbeat alone
C30_Rediscovered == \A bd \in Boards : <>Rediscovered(bd)

\* ------------------------------------------------------------------------
\* Properties of the auto-release callback
\* ------------------------------------------------------------------------
CallbackBoard(cb) == BARRIERS[tasks[cb.id].b].board

\* C31: while the auto-release callback's write is in flight the callback
\* holds the gate of the barrier's board, and no heartbeat or status read and
\* no write sequence is in flight on that board.
C31_CallbackHoldsGate ==
  \A cb \in callbacks :
    /\ boardState[CallbackBoard(cb)].commandLock
    /\ Reading(CallbackBoard(cb)) = {}
    /\ Writing(CallbackBoard(cb)) = {}

\* ------------------------------------------------------------------------
\* Properties of findBarrier
\* ------------------------------------------------------------------------
\* the decimal numeral of a natural number
RECURSIVE Numeral(_)
Numeral(n) ==
  IF n < 10 THEN <<LowerDigits[n + 1]>>
  ELSE Numeral(n \div 10) \o <<LowerDigits[(n % 10) + 1]>>

Names(token, b) == token = ID_CHARS[b] \/ token = Numeral(NUMERIC_ID[b])

\* C32: a token resolves to a barrier whenever it equals that barrier's
\* string id or its numeric id, and to not-found otherwise.
C32_Resolution ==
  findResult # "pending" =>
    IF \E b \in TsBarrierIds : Names(findToken, b)
      THEN findResult \in TsBarrierIds /\ Names(findToken, findResult)
      ELSE findResult = NotFound

\* C33: every pending auto-release timer is the one its barrier's handle
\* records (so the next action or emergency-off cancels it).
C33_PendingTimerRecorded ==
  \A id \in timers : closeTimers[tasks[id].b] = id

\* C34: an action whose writes fail leaves the auto-release timer that was
\* pending when it arrived in effect, when the close coil is still asserted.
C34_FailedActionKeepsTimer ==
  [][\A t \in 1..MaxTasks :
       (/\ Settles(t, "err")
        /\ tasks[t].kind \in ActionNames
        /\ tasks[t].cleared # 0
        /\ Coil(tasks[t].b, "close")')
         => tasks[t].cleared \in timers']_vars

\* ------------------------------------------------------------------------
\* Properties of the dialect flag and the heartbeat cycles
\* ------------------------------------------------------------------------
\* C35: the response of every exchange in flight is parsed with the dialect
\* its request was framed in: the board's dialect flag, which the 'data'
\* handler reads, equals the frame's dialect for as long as the exchange is
\* in flight.
C35_ParsedAsFramed ==
  /\ \A t \in DOMAIN tasks :
       InFlight(t) => boardState[tasks[t].bd].useRTU = tasks[t].fr
  /\ \A cb \in callbacks : boardState[CallbackBoard(cb)].useRTU = cb.fr

Beating(bd) ==
  {t \in DOMAIN tasks :
     tasks[t].kind = "beat" /\ InFlight(t) /\ tasks[t].bd = bd}

\* C36: at most one heartbeat cycle (detection probes plus coil read) is in
\* flight per board.
C36_OneCyclePerBoard == \A bd \in Boards : Cardinality(Beating(bd)) <= 1

\* C37: a board whose reachability flag is true has a detected dialect.
C37_ReachableImpliesDetected ==
  \A bd \in Boards : boardState[bd].reachable => boardState[bd].modeDetected

\* ------------------------------------------------------------------------
\* Properties of an action on an unreachable board
\* ------------------------------------------------------------------------
\* a lift, close or stop arrives for a barrier whose board is not reachable
ArrivesUnreachable(t) ==
  /\ Arrives(t)
  /\ tasks'[t].kind \in ActionNames
  /\ tasks'[t].b \in BarrierIds
  /\ ~boardState[BoardOf(tasks'[t].b)].reachable

\* C38: an action on a barrier whose board is not marked reachable fails at
\* once: no coil is written, no timer cancelled, no audit event emitted, and
\* the board state (gate included) is unchanged.
C38_UnreachableTouchesNothing ==
  [][\A t \in 1..MaxTasks :
       ArrivesUnreachable(t) =>
         /\ tasks'[t].pc = "done"
         /\ ~Accepted(t)'
         /\ UNCHANGED <<relay, boardState, closeTimers, timers, callbacks,
                        auditEntries>>]_vars

\* after a heartbeat cycle found no board, an action was refused for a
\* barrier whose board is unreachable: a coil left on is still on, the gate
\* is open and nothing was audited
C38_Witness ==
  \E t \in DOMAIN tasks :
    /\ tasks[t].kind \in ActionNames
    /\ tasks[t].res = "unreachable"
    /\ \E u \in 1..(t - 1) :
         tasks[u].kind = "beat" /\ tasks[u].res = "undetected"
    /\ relay[BoardOf(tasks[t].b)] # AllOff(BoardOf(tasks[t].b))
    /\ ~boardState[BoardOf(tasks[t].b)].reachable
    /\ ~boardState[BoardOf(tasks[t].b)].commandLock
    /\ auditEntries = <<>>

\* ------------------------------------------------------------------------
\* Properties of the connection manager
\* ------------------------------------------------------------------------
Connecting(k) ==
  {p \in DOMAIN clients : clients[p].k = k /\ clients[p].conn = "connecting"}

\* call i calls getConnection in this step: it arrives, or it retries
Asks(i) ==
  \/ i = Len(calls) + 1 /\ Len(calls') = i
  \/ i \in DOMAIN calls /\ calls'[i].attempt = calls[i].attempt + 1

\* no open connection is cached for call i's endpoint when it asks (a retry
\* has just dropped the cached one)
NothingCached(i) ==
  \/ i \in DOMAIN calls
  \/ connections[calls'[i].k] = 0
  \/ ~clients[connections[calls'[i].k]].open

OneAttempt == \A k \in Endpoints : Cardinality(Connecting(k)) <= 1

EntryIsPending ==
  \A k \in Endpoints :
    /\ connectPromises[k] # 0 => connectPromises[k] \in Connecting(k)
    /\ Connecting(k) \subseteq {connectPromises[k]}

SharesAttempt ==
  \A i \in 1..MaxCalls :
    (Asks(i) /\ NothingCached(i) /\ Connecting(calls'[i].k) # {}) =>
      /\ calls'[i].p \in Connecting(calls'[i].k)
      /\ Len(clients') = Len(clients)

SharesOutcome ==
  \A i \in DOMAIN calls :
    (calls[i].pc = "connect" /\ calls'[i] # calls[i]) =>
      (calls'[i].pc = "op" <=> clients[calls[i].p].conn = "connected")

SettleRemoves ==
  \A p \in DOMAIN clients :
    (clients[p].conn = "connecting" /\ clients'[p].conn # "connecting") =>
      connectPromises'[clients[p].k] = 0

NeverBlocked ==
  \A i \in 1..MaxCalls :
    (Asks(i) /\ NothingCached(i) /\ Connecting(calls'[i].k) = {}) =>
      /\ Len(clients') = Len(clients) + 1
      /\ calls'[i].p = Len(clients')
      /\ clients'[calls'[i].p] = Client(calls'[i].k)

\* C39: at most one connect attempt is in flight per endpoint; a caller that
\* asks while one is in flight awaits that attempt and gets its outcome; the
\* pending entry is removed when the attempt settles, whichever way, so the
\* next caller after a failed connect starts a new attempt.
C39_OneConnectAttempt ==
  /\ [](OneAttempt /\ EntryIsPending)
  /\ [][SharesAttempt /\ SharesOutcome /\ SettleRemoves /\ NeverBlocked]_vars

\* a connect failed; the retry of the call that awaited it started a second
\* attempt, which another call awaits too
C39_Witness ==
  /\ Len(calls) = 2
  /\ Len(clients) = 2
  /\ clients[1].conn = "failed"
  /\ clients[2].conn = "connecting"
  /\ clients[1].k = clients[2].k
  /\ \A i \in 1..2 : calls[i].pc = "connect" /\ calls[i].p = 2
  /\ connectPromises[clients[2].k] = 2

\* call i's attempt fails in this step
FirstFailure(i) == calls'[i].attempt = calls[i].attempt + 1

SecondFailure(i) == calls[i].pc # "done" /\ calls'[i].res = "err"

CachedDropped(k) ==
  /\ connections'[k] = 0
  /\ connections[k] # 0 => ~clients'[connections[k]].open

RetriesOnce ==
  \A i \in DOMAIN calls :
    FirstFailure(i) =>
      /\ calls[i].attempt = 0
      /\ CachedDropped(calls[i].k)
      /\ calls'[i].pc = "connect"
      /\ calls'[i].p # calls[i].p
      /\ clients'[calls'[i].p].conn = "connecting"
      /\ ~clients'[calls'[i].p].failed

FailsWithSecond ==
  \A i \in DOMAIN calls :
    SecondFailure(i) =>
      /\ calls[i].attempt = 1
      /\ calls'[i].thrown = 1
      /\ calls'[i].pc = "done"
      /\ CachedDropped(calls[i].k)

NoFailedCached ==
  \A k \in Endpoints :
    connections[k] # 0 =>
      /\ clients[connections[k]].conn = "connected"
      /\ ~clients[connections[k]].failed

\* C40: withRetry runs op at most twice; a first failure drops the cached
\* connection and retries on a fresh one; a second failure drops the cached
\* connection and throws the second error; no failed connection is cached.
C40_RetryOnce ==
  /\ [](NoFailedCached /\ \A i \in DOMAIN calls : calls[i].ops <= 2)
  /\ [][RetriesOnce /\ FailsWithSecond]_vars

\* a call ran op on two connections, both failed, and it threw the second
\* error; nothing is cached
C40_Witness ==
  \E i \in DOMAIN calls :
    /\ calls[i].res = "err"
    /\ calls[i].ops = 2
    /\ calls[i].thrown = 1
    /\ connections[calls[i].k] = 0
    /\ Cardinality({p \in DOMAIN clients :
                      clients[p].k = calls[i].k /\ clients[p].failed}) = 2
====
